---- MODULE Spec2Model ----
(***************************************************************************)
(* Model of src/repair_pipeline.py: the age-rating pipeline for screenplay *)
(* scripts (scene segmentation, lexical matching with false-positive       *)
(* suppression, score normalisation, aggregation, rating classification).  *)
(*                                                                         *)
(* Numbers.  The program computes scores in binary floating point.  The    *)
(* model computes them as exact rationals [num, den] in lowest terms, so   *)
(* every comparison with a threshold is the comparison of the real values. *)
(*                                                                         *)
(* Strings.  A text is a sequence of one-character strings.  Cyrillic      *)
(* literals of the source are written in Latin transliteration.            *)
(***************************************************************************)
EXTENDS Integers, Sequences, FiniteSets, TLC

VARIABLES
    pc,           \* position of the caller: which function is entered / has returned
    agg,          \* aggregated document scores (argument of map_scores_to_rating)
    prev,         \* the earlier calls of the rating caller: <<[agg, rating_info]>>
    rating_info,  \* result of map_scores_to_rating
    match_patterns, \* name of the keyword list passed to count_pattern_matches
    match_text,   \* the text passed to count_pattern_matches
    match_result, \* result of count_pattern_matches: [count, matches]
    txt,          \* the document text
    scenes,       \* the scene list of parse_script_to_scenes
    embedder,     \* the loaded embedding model, as the context scores it gives a text
    features,     \* analyze_script_file: the feature records of the scenes read so far
    scores,       \* analyze_script_file: the score records of the scenes
    top_scenes,   \* analyze_script_file: the trigger scenes
    result,       \* the record analyze_script_file returns
    error,        \* the exception analyze_script_file raised, if it raised
    context_embeddings, \* module level: the embeddings of the context templates
    template_encodings, \* how many times the context templates have been encoded
    scenario_files, \* the batch driver: the files to test, in order
    scenario,     \* the batch driver: the place of the file under test
    all_results   \* the batch driver: the records of the files tested

\* the variables that only analyze_script_file and the scene scorer use
analysis == <<embedder, features, scores, top_scenes, result>>

\* the variables of the module's initialisation and of the batch driver
process == <<error, context_embeddings, template_encodings, scenario_files, scenario,
             all_results>>

vars == <<pc, agg, prev, rating_info, match_patterns, match_text, match_result, txt, scenes,
          analysis, process>>

NONE == "none"

\* the module is loaded and no batch is run
NoBatch ==
    /\ error = NONE
    /\ context_embeddings = "encoded" /\ template_encodings = 1
    /\ scenario_files = <<>> /\ scenario = 0 /\ all_results = <<>>

NoAnalysis ==
    /\ embedder = NONE /\ features = <<>> /\ scores = <<>>
    /\ top_scenes = <<>> /\ result = NONE
    /\ NoBatch

----------------------------------------------------------------------------
(* Exact rational arithmetic *)

RECURSIVE GCD(_, _)
GCD(a, b) == IF b = 0 THEN a ELSE GCD(b, a % b)

Rat(n, d) == LET g == GCD(n, d) IN [num |-> n \div g, den |-> d \div g]

Zero == Rat(0, 1)
One == Rat(1, 1)
\* a decimal literal with two digits after the point: Pct(65) is 0.65
Pct(h) == Rat(h, 100)

RLe(a, b) == a.num * b.den <= b.num * a.den
RLt(a, b) == a.num * b.den < b.num * a.den
RGe(a, b) == RLe(b, a)
RGt(a, b) == RLt(b, a)
RMin(a, b) == IF RLe(a, b) THEN a ELSE b
RMax(a, b) == IF RGe(a, b) THEN a ELSE b
LCM(a, b) == (a \div GCD(a, b)) * b
RAdd(a, b) == LET l == LCM(a.den, b.den)
              IN Rat(a.num * (l \div a.den) + b.num * (l \div b.den), l)
RSub(a, b) == LET l == LCM(a.den, b.den)
              IN Rat(a.num * (l \div a.den) - b.num * (l \div b.den), l)
RMul(a, b) == LET x == Rat(a.num, b.den)
                  y == Rat(b.num, a.den)
              IN [num |-> x.num * y.num, den |-> x.den * y.den]
InUnit(a) == RLe(Zero, a) /\ RLe(a, One)

----------------------------------------------------------------------------
(* Sequences *)

\* s[:n]
Take(s, n) == SubSeq(s, 1, IF Len(s) < n THEN Len(s) ELSE n)

----------------------------------------------------------------------------
(* Rating classifier *)

score_keys == <<"violence", "gore", "sex_act", "nudity", "profanity", "drugs", "child_risk">>
excerpt_keys == <<"violence", "gore", "sex", "nudity", "profanity", "drugs">>

Ratings == <<"0+", "6+", "12+", "16+", "18+">>
Tier(r) == CHOOSE i \in 1..Len(Ratings) : Ratings[i] = r

\* the reason strings of map_scores_to_rating, transliterated
REASON_SEX_EXPLICIT == "eksplicitnye sceny seksualnogo haraktera"
REASON_GORE_EXTREME == "krayne graficheskoe izobrazhenie zhestokosti i uvechiy"
REASON_MINORS == "opasnye ili zhestokie sceny s uchastiem nesovershennoletnih"
REASON_GRAPHIC_VIOLENCE == "intensivnoe graficheskoe nasilie s krovyu i uvechyami"
REASON_INTENSE_VIOLENCE == "intensivnoe nasilie i sceny ubiystv"
REASON_BLOOD == "izobrazhenie krovi i telesnyh povrezhdeniy"
REASON_SEX_NUDITY == "seksualnyy kontent i nagota"
REASON_MODERATE_VIOLENCE == "umerennoe nasilie i ugrozy"
REASON_PROFANITY == "nenormativnaya leksika"
REASON_DRUGS == "upotreblenie alkogolya, tabaka ili narkotikov"
REASON_MINOR_CONTENT == "neznachitelnoe nasilie ili redkaya grubaya leksika"
REASON_NONE == "kontent bez vozrastnyh ogranicheniy"

\* one "if cond: reasons.append(r); excerpts.extend(e[:n])" block
If1(cond, x) == IF cond THEN <<x>> ELSE <<>>
IfSeq(cond, s) == IF cond THEN s ELSE <<>>

RatingResult(rating, reasons, excerpts) ==
    [rating |-> rating, reasons |-> reasons, evidence_excerpts |-> Take(excerpts, 5)]

\* the bodies of the eight branches of the if/elif chain
Branch1(a) ==
    RatingResult("18+",
        If1(RGe(a.sex_act, Pct(75)), REASON_SEX_EXPLICIT)
            \o If1(RGe(a.gore, Pct(95)), REASON_GORE_EXTREME),
        IfSeq(RGe(a.sex_act, Pct(75)), Take(a.excerpts.sex, 2))
            \o IfSeq(RGe(a.gore, Pct(95)), Take(a.excerpts.gore, 2)))
Branch2(a) ==
    RatingResult("18+", <<REASON_MINORS>>, Take(a.excerpts.violence, 2))
Branch3(a) ==
    RatingResult("16+", <<REASON_GRAPHIC_VIOLENCE>>,
        Take(a.excerpts.violence, 2) \o Take(a.excerpts.gore, 1))
Branch4(a) ==
    RatingResult("16+",
        If1(RGe(a.violence, Pct(65)), REASON_INTENSE_VIOLENCE)
            \o If1(RGe(a.gore, Pct(50)), REASON_BLOOD),
        IfSeq(RGe(a.violence, Pct(65)), Take(a.excerpts.violence, 2))
            \o IfSeq(RGe(a.gore, Pct(50)), Take(a.excerpts.gore, 2)))
Branch5(a) ==
    RatingResult("16+", <<REASON_SEX_NUDITY>>,
        Take(a.excerpts.sex, 2) \o Take(a.excerpts.nudity, 2))
Branch6(a) ==
    RatingResult("12+",
        If1(RGe(a.violence, Pct(40)), REASON_MODERATE_VIOLENCE)
            \o If1(RGe(a.profanity, Pct(50)), REASON_PROFANITY)
            \o If1(RGe(a.drugs, Pct(40)), REASON_DRUGS),
        IfSeq(RGe(a.violence, Pct(40)), Take(a.excerpts.violence, 1))
            \o IfSeq(RGe(a.profanity, Pct(50)), Take(a.excerpts.profanity, 1))
            \o IfSeq(RGe(a.drugs, Pct(40)), Take(a.excerpts.drugs, 1)))
Branch7(a) == RatingResult("6+", <<REASON_MINOR_CONTENT>>, <<>>)
Branch8(a) == RatingResult("0+", <<REASON_NONE>>, <<>>)

\* variant: the 12+ branch is tested before the 16+ sexual-content branch
map_scores_to_rating_reordered(a) ==
    IF RGe(a.sex_act, Pct(75)) \/ RGe(a.gore, Pct(95)) THEN Branch1(a)
    ELSE IF RGt(a.child_risk, Pct(70))
            /\ (RGe(a.sex_act, Pct(50)) \/ RGe(a.violence, Pct(80))) THEN Branch2(a)
    ELSE IF (RGe(a.violence, Pct(80)) /\ RGe(a.gore, Pct(70)))
            \/ RGe(a.gore, Pct(75)) THEN Branch3(a)
    ELSE IF RGe(a.violence, Pct(65)) \/ RGe(a.gore, Pct(50)) THEN Branch4(a)
    ELSE IF RGe(a.violence, Pct(40)) \/ RGe(a.profanity, Pct(50))
            \/ RGe(a.drugs, Pct(40)) THEN Branch6(a)
    ELSE IF RGe(a.sex_act, Pct(35)) \/ RGe(a.nudity, Pct(40)) THEN Branch5(a)
    ELSE IF RGe(a.violence, Pct(20)) \/ RGe(a.profanity, Pct(30)) THEN Branch7(a)
    ELSE Branch8(a)

map_scores_to_rating(a) ==
    IF RGe(a.sex_act, Pct(75)) \/ RGe(a.gore, Pct(95)) THEN Branch1(a)
    ELSE IF RGt(a.child_risk, Pct(70))
            /\ (RGe(a.sex_act, Pct(50)) \/ RGe(a.violence, Pct(80))) THEN Branch2(a)
    ELSE IF (RGe(a.violence, Pct(80)) /\ RGe(a.gore, Pct(70)))
            \/ RGe(a.gore, Pct(75)) THEN Branch3(a)
    ELSE IF RGe(a.violence, Pct(65)) \/ RGe(a.gore, Pct(50)) THEN Branch4(a)
    ELSE IF RGe(a.sex_act, Pct(35)) \/ RGe(a.nudity, Pct(40)) THEN Branch5(a)
    ELSE IF RGe(a.violence, Pct(40)) \/ RGe(a.profanity, Pct(50))
            \/ RGe(a.drugs, Pct(40)) THEN Branch6(a)
    ELSE IF RGe(a.violence, Pct(20)) \/ RGe(a.profanity, Pct(30)) THEN Branch7(a)
    ELSE Branch8(a)

----------------------------------------------------------------------------
(* Caller of map_scores_to_rating on an arbitrary aggregated score vector *)

\* hundredths on both sides of every threshold the rule table reads
ViolenceGrid == {0, 19, 20, 39, 40, 64, 65, 79, 80, 100}
GoreGrid == {49, 50, 69, 70, 74, 75, 94, 95}
SexGrid == {34, 35, 49, 50, 74, 75}
NudityGrid == {39, 40}
ProfanityGrid == {29, 30, 49, 50}
DrugsGrid == {39, 40}
ChildRiskGrid == {70, 71}

NoExcerpts == [violence |-> <<>>, gore |-> <<>>, sex |-> <<>>, nudity |-> <<>>,
               profanity |-> <<>>, drugs |-> <<>>]
FullExcerpts == [violence |-> <<"v1", "v2", "v3", "v4", "v5">>,
                 gore |-> <<"g1", "g2", "g3", "g4", "g5">>,
                 sex |-> <<"s1", "s2", "s3", "s4", "s5">>,
                 nudity |-> <<"n1", "n2", "n3", "n4", "n5">>,
                 profanity |-> <<"p1", "p2", "p3", "p4", "p5">>,
                 drugs |-> <<"d1", "d2", "d3", "d4", "d5">>]
ExcerptPools == {NoExcerpts, FullExcerpts}

AggVector(v, g, s, n, p, d, c, e) ==
    [violence |-> Pct(v), gore |-> Pct(g), sex_act |-> Pct(s), nudity |-> Pct(n),
     profanity |-> Pct(p), drugs |-> Pct(d), child_risk |-> Pct(c), excerpts |-> e]

InitRating ==
    /\ pc = "rating_call"
    /\ \E v \in ViolenceGrid, g \in GoreGrid, s \in SexGrid, n \in NudityGrid,
          p \in ProfanityGrid, d \in DrugsGrid, c \in ChildRiskGrid, e \in ExcerptPools :
            agg = AggVector(v, g, s, n, p, d, c, e)
    /\ prev = <<>>
    /\ rating_info = NONE
    /\ match_patterns = NONE /\ match_text = NONE /\ match_result = NONE
    /\ txt = NONE /\ scenes = <<>>
    /\ NoAnalysis

\* rating_info = map_scores_to_rating(agg)
CallMapScoresToRating ==
    /\ pc = "rating_call"
    /\ rating_info' = map_scores_to_rating(agg)
    /\ pc' = "rated"
    /\ UNCHANGED <<agg, prev, match_patterns, match_text, match_result, txt, scenes, analysis, process>>

\* the caller rates again a vector that differs only by a higher violence score
CallWithHigherViolence ==
    /\ pc = "rated"
    /\ prev = <<>>
    /\ \E v \in ViolenceGrid :
        /\ RGt(Pct(v), agg.violence)
        /\ agg' = [agg EXCEPT !.violence = Pct(v)]
    /\ prev' = <<[agg |-> agg, rating_info |-> rating_info]>>
    /\ rating_info' = map_scores_to_rating(agg')
    /\ UNCHANGED <<pc, match_patterns, match_text, match_result, txt, scenes, analysis, process>>

NextRating == CallMapScoresToRating \/ CallWithHigherViolence

SpecRating == InitRating /\ [][NextRating]_vars

\* hundredths at every threshold the rule table reads, and below the lowest
ViolenceSteps == {0, 20, 40, 65, 80}
GoreSteps == {0, 50, 70, 75, 95}
SexSteps == {0, 35, 50, 75}
NuditySteps == {0, 40}
ProfanitySteps == {0, 30, 50}
DrugsSteps == {0, 40}
ChildRiskSteps == {70, 71}

InitMonotone ==
    /\ pc = "rating_call"
    /\ \E v \in ViolenceSteps, g \in GoreSteps, s \in SexSteps, n \in NuditySteps,
          p \in ProfanitySteps, d \in DrugsSteps, c \in ChildRiskSteps :
            agg = AggVector(v, g, s, n, p, d, c, NoExcerpts)
    /\ prev = <<>>
    /\ rating_info = NONE
    /\ match_patterns = NONE /\ match_text = NONE /\ match_result = NONE
    /\ txt = NONE /\ scenes = <<>>
    /\ NoAnalysis

\* the caller rates again a vector no score of which is lower and one is
\* higher
CallWithHigherScores ==
    /\ pc = "rated"
    /\ prev = <<>>
    /\ \E v \in ViolenceSteps, g \in GoreSteps, s \in SexSteps, n \in NuditySteps,
          p \in ProfanitySteps, d \in DrugsSteps, c \in ChildRiskSteps :
        /\ RGe(Pct(v), agg.violence) /\ RGe(Pct(g), agg.gore) /\ RGe(Pct(s), agg.sex_act)
        /\ RGe(Pct(n), agg.nudity) /\ RGe(Pct(p), agg.profanity) /\ RGe(Pct(d), agg.drugs)
        /\ RGe(Pct(c), agg.child_risk)
        /\ agg' = AggVector(v, g, s, n, p, d, c, NoExcerpts)
        /\ agg' # agg
    /\ prev' = <<[agg |-> agg, rating_info |-> rating_info]>>
    /\ rating_info' = map_scores_to_rating(agg')
    /\ UNCHANGED <<pc, match_patterns, match_text, match_result, txt, scenes, analysis,
                   process>>

NextMonotone == CallMapScoresToRating \/ CallWithHigherScores

SpecMonotone == InitMonotone /\ [][NextMonotone]_vars

----------------------------------------------------------------------------
(* Texts and regular expressions *)

LowerLetters == <<"a", "b", "c", "d", "e", "f", "g", "h", "i", "j", "k", "l", "m",
                  "n", "o", "p", "q", "r", "s", "t", "u", "v", "w", "x", "y", "z">>
UpperLetters == <<"A", "B", "C", "D", "E", "F", "G", "H", "I", "J", "K", "L", "M",
                  "N", "O", "P", "Q", "R", "S", "T", "U", "V", "W", "X", "Y", "Z">>
Digits == {"0", "1", "2", "3", "4", "5", "6", "7", "8", "9"}
Range(s) == {s[i] : i \in 1..Len(s)}
\* the Cyrillic letters of the scene markers and of the Russian words for
\* blood and bed, named in Latin
CyrLower == <<"cyr:i", "cyr:n", "cyr:t", "cyr:e", "cyr:k", "cyr:s",
              "cyr:r", "cyr:o", "cyr:v", "cyr:a", "cyr:ch", "cyr:soft">>
CyrUpper == <<"CYR:I", "CYR:N", "CYR:T", "CYR:E", "CYR:K", "CYR:S",
              "CYR:R", "CYR:O", "CYR:V", "CYR:A", "CYR:CH", "CYR:SOFT">>
WordChars == Range(LowerLetters) \cup Range(UpperLetters) \cup Digits \cup {"_"}
                \cup Range(CyrLower) \cup Range(CyrUpper)
SpaceChars == {" ", "\n", "\t"}

\* str.lower() of one character, and of a text
UpperChars == Range(UpperLetters) \cup Range(CyrUpper)
LowerOf ==
    [c \in UpperChars |->
        IF c \in Range(UpperLetters)
        THEN LowerLetters[CHOOSE i \in 1..26 : UpperLetters[i] = c]
        ELSE CyrLower[CHOOSE i \in 1..Len(CyrUpper) : CyrUpper[i] = c]]
LowerChar(c) == IF c \in UpperChars THEN LowerOf[c] ELSE c
Lower(t) == [i \in 1..Len(t) |-> LowerChar(t[i])]

\* str.strip()
RECURSIVE LStrip(_)
LStrip(t) == IF t # <<>> /\ Head(t) \in SpaceChars THEN LStrip(Tail(t)) ELSE t
RECURSIVE RStrip(_)
RStrip(t) ==
    IF t # <<>> /\ t[Len(t)] \in SpaceChars THEN RStrip(SubSeq(t, 1, Len(t) - 1)) ELSE t
Strip(t) == RStrip(LStrip(t))

\* the words of the sentences below, joined by single spaces
RECURSIVE Join(_)
Join(ws) ==
    IF ws = <<>> THEN <<>>
    ELSE IF Len(ws) = 1 THEN ws[1]
    ELSE ws[1] \o <<" ">> \o Join(Tail(ws))

(* A regular expression is a sequence of atoms, matched in order (re flags  *)
(* re.I: a literal is compared with the lower-cased character).  Positions *)
(* are 1-based; a match from i to j covers t[i] .. t[j-1].                 *)
Lit(s) == [k |-> "lit", s |-> s]               \* literal characters
B == [k |-> "b"]                               \* \b
WStar == [k |-> "run", set |-> WordChars, min |-> 0]     \* \w*
WPlus == [k |-> "run", set |-> WordChars, min |-> 1]     \* \w+
SStar == [k |-> "run", set |-> SpaceChars, min |-> 0]    \* \s*
SPlus == [k |-> "run", set |-> SpaceChars, min |-> 1]    \* \s+
AnyStar == [k |-> "any", max |-> -1]           \* .*
AnyUpTo(n) == [k |-> "any", max |-> n]         \* .{0,n}
Alt(rs) == [k |-> "alt", rs |-> rs]            \* (r1|r2|...)
Opt(r) == [k |-> "alt", rs |-> <<r, <<>>>>]    \* (r)?

IsWordAt(t, i) == i >= 1 /\ i <= Len(t) /\ t[i] \in WordChars

\* the largest j >= i such that t[i] .. t[j-1] all satisfy the run's
\* condition, at most limit of them (limit -1: any number)
Least(S) == CHOOSE i \in S : \A j \in S : i <= j
Last(t, i, limit) == IF limit < 0 \/ i + limit - 1 > Len(t) THEN Len(t) ELSE i + limit - 1
RunEnd(t, i, set, limit) ==
    Least({k \in i..Last(t, i, limit) : t[k] \notin set} \cup {Last(t, i, limit) + 1})
AnyEnd(t, i, limit) ==
    Least({k \in i..Last(t, i, limit) : t[k] = "\n"} \cup {Last(t, i, limit) + 1})
\* greedy repetition: the ends tried, longest first, down to lo
Descending(hi, lo) == [n \in 1..(hi - lo + 1) |-> hi - n + 1]

\* the ends of the matches of an atom / of a sequence of atoms that start
\* at i, in the order in which a backtracking matcher tries them
RECURSIVE Ends(_, _, _), EndsSeq(_, _, _, _), EndsOver(_, _, _, _, _, _), EndsAlt(_, _, _, _)
Ends(a, t, i) ==
    CASE a.k = "lit" ->
            IF /\ i + Len(a.s) - 1 <= Len(t)
               /\ \A n \in 1..Len(a.s) : LowerChar(t[i + n - 1]) = a.s[n]
            THEN <<i + Len(a.s)>> ELSE <<>>
      [] a.k = "b" -> IF IsWordAt(t, i - 1) # IsWordAt(t, i) THEN <<i>> ELSE <<>>
      [] a.k = "run" -> Descending(RunEnd(t, i, a.set, -1), i + a.min)
      [] a.k = "any" -> Descending(AnyEnd(t, i, a.max), i)
      [] a.k = "alt" -> EndsAlt(a.rs, 1, t, i)
EndsAlt(rs, n, t, i) ==
    IF n > Len(rs) THEN <<>> ELSE EndsSeq(rs[n], 1, t, i) \o EndsAlt(rs, n + 1, t, i)
EndsSeq(r, n, t, i) ==
    IF n > Len(r) THEN <<i>>
    ELSE LET js == Ends(r[n], t, i) IN EndsOver(r, n, t, js, 1, Len(js))
\* the ends of the rest of the pattern after each of js[lo] .. js[hi], in order
EndsOver(r, n, t, js, lo, hi) ==
    IF lo > hi THEN <<>>
    ELSE IF lo = hi THEN EndsSeq(r, n + 1, t, js[lo])
    ELSE EndsOver(r, n, t, js, lo, (lo + hi) \div 2)
            \o EndsOver(r, n, t, js, (lo + hi) \div 2 + 1, hi)

\* the positions at which the pattern matches
MatchStarts(r, t) == {i \in 1..(Len(t) + 1) : EndsSeq(r, 1, t, i) # <<>>}
\* regex.finditer(text): the non-overlapping matches, left to right; the
\* next match is the leftmost one that starts at pos or later
RECURSIVE FindFrom(_, _, _, _)
FindFrom(r, t, starts, pos) ==
    LET later == {i \in starts : i >= pos} IN
    IF later = {} THEN <<>>
    ELSE LET i == Least(later)
             e == EndsSeq(r, 1, t, i)
         IN <<[start |-> i, end |-> e[1]]>>
                \o FindFrom(r, t, later, IF e[1] = i THEN i + 1 ELSE e[1])
FindIter(r, t, pos) == FindFrom(r, t, MatchStarts(r, t), pos)

\* regex.search(text) is not None
Search(r, t) == \E i \in 1..(Len(t) + 1) : EndsSeq(r, 1, t, i) # <<>>

----------------------------------------------------------------------------
(* Lexical matcher *)

w_kill == <<"k", "i", "l", "l">>
w_kills == <<"k", "i", "l", "l", "s">>
w_killed == <<"k", "i", "l", "l", "e", "d">>
w_knife == <<"k", "n", "i", "f", "e">>
w_gun == <<"g", "u", "n">>
w_if == <<"i", "f">>
w_it == <<"i", "t">>
w_that == <<"t", "h", "a", "t">>
w_this == <<"t", "h", "i", "s">>
w_me == <<"m", "e">>
w_you == <<"y", "o", "u">>
w_him == <<"h", "i", "m">>
w_her == <<"h", "e", "r">>
w_them == <<"t", "h", "e", "m">>
w_us == <<"u", "s">>
w_he == <<"h", "e">>
w_the == <<"t", "h", "e">>
w_soldier == <<"s", "o", "l", "d", "i", "e", "r">>
w_with == <<"w", "i", "t", "h">>
w_a == <<"a">>
w_make == <<"m", "a", "k", "e">>
w_love == <<"l", "o", "v", "e">>
w_time == <<"t", "i", "m", "e">>
w_blood == <<"b", "l", "o", "o", "d">>
w_damn == <<"d", "a", "m", "n">>
w_drug == <<"d", "r", "u", "g">>
w_child == <<"c", "h", "i", "l", "d">>
w_naked == <<"n", "a", "k", "e", "d">>
w_sexual == <<"s", "e", "x", "u", "a", "l">>
w_molest == <<"m", "o", "l", "e", "s", "t">>
w_rape == <<"r", "a", "p", "e">>
w_seduce == <<"s", "e", "d", "u", "c", "e">>
w_fondle == <<"f", "o", "n", "d", "l", "e">>
w_brain == <<"b", "r", "a", "i", "n">>
w_injur == <<"i", "n", "j", "u", "r">>
w_garbage == <<"g", "a", "r", "b", "a", "g", "e">>
w_just == <<"j", "u", "s", "t">>
w_are == <<"a", "r", "e">>
w_krov == <<"cyr:k", "cyr:r", "cyr:o", "cyr:v">>

(* The keyword lists and the suppression list, restricted to the patterns  *)
(* that can match a text over the vocabulary of this model (no other       *)
(* pattern of the source matches any of these texts).                      *)
VIOLENCE_WORDS == <<
    <<B, Lit(w_kill), WStar>>,                 \* \bkill\w*
    <<B, Lit(w_knife), B>>,                    \* \bknife\b
    <<B, Lit(w_gun), WStar>> >>                \* \bgun\w*
GORE_WORDS == <<
    <<B, Lit(w_blood), B>>,                    \* \bblood\b
    <<B, Lit(w_injur), WStar>>,                \* \binjur\w*
    <<B, Lit(w_brain), B>>,                    \* \bbrain\b
    <<B, Lit(w_krov), WStar>>,                                   \* \b(krov)\w*
    <<B, Lit(w_krov \o <<"cyr:a", "cyr:v">>), WStar>>,           \* \b(krovav)\w*
    <<B, Lit(w_krov \o <<"cyr:o", "cyr:t", "cyr:o", "cyr:ch">>), WStar>> >>  \* \b(krovotoch)\w*
PROFANITY == <<
    <<B, Lit(w_damn), B>> >>                   \* \bdamn\b
DRUG_WORDS == <<
    <<B, Lit(w_drug), Opt(<<Lit(<<"s">>)>>), B>> >>         \* \bdrug(s)?\b
CHILD_WORDS == <<
    <<B, Lit(w_child), Opt(<<Lit(<<"r", "e", "n">>)>>), B>> >>   \* \bchild(ren)?\b
NUDITY_WORDS == <<
    <<B, Lit(w_naked), B>> >>                  \* \bnaked\b
SEX_WORDS == <<
    <<B, Lit(w_sexual), B>>,                                \* \bsexual\b
    <<B, Lit(w_molest), B>>,                                \* \bmolest\b
    <<B, Lit(w_make), Lit(<<" ">>), Lit(w_love), B>> >>     \* \bmake love\b

Sp == Lit(<<" ">>)
FALSE_POSITIVES == <<
    \* if (it|that|this) kills
    <<Lit(w_if), Sp, Alt(<<<<Lit(w_it)>>, <<Lit(w_that)>>, <<Lit(w_this)>>>>), Sp, Lit(w_kills)>>,
    \* kill (you|me|him|her|them|us)
    <<Lit(w_kill), Sp, Alt(<<<<Lit(w_you)>>, <<Lit(w_me)>>, <<Lit(w_him)>>, <<Lit(w_her)>>,
                              <<Lit(w_them)>>, <<Lit(w_us)>>>>)>>,
    <<Lit(w_make), Sp, Lit(w_love)>>,          \* make love
    <<Lit(w_kill), Sp, Lit(w_time)>>,          \* kill time
    \* as if.*\b(molest|rape|seduce|fondle)
    <<Lit(<<"a", "s", " ", "i", "f">>), AnyStar, B,
      Alt(<<<<Lit(w_molest)>>, <<Lit(w_rape)>>, <<Lit(w_seduce)>>, <<Lit(w_fondle)>>>>)>>,
    \* about to.*\b(molest|rape|seduce|fondle)
    <<Lit(<<"a", "b", "o", "u", "t", " ", "t", "o">>), AnyStar, B,
      Alt(<<<<Lit(w_molest)>>, <<Lit(w_rape)>>, <<Lit(w_seduce)>>, <<Lit(w_fondle)>>>>)>>,
    \* brain (garbage|dump|drain|power|wave|dead|cell|teaser)
    <<Lit(w_brain), Sp,
      Alt(<<<<Lit(w_garbage)>>, <<Lit(<<"d", "u", "m", "p">>)>>, <<Lit(<<"d", "r", "a", "i", "n">>)>>,
            <<Lit(<<"p", "o", "w", "e", "r">>)>>, <<Lit(<<"w", "a", "v", "e">>)>>,
            <<Lit(<<"d", "e", "a", "d">>)>>, <<Lit(<<"c", "e", "l", "l">>)>>,
            <<Lit(<<"t", "e", "a", "s", "e", "r">>)>>>>)>>,
    \* brain(s)? (are|is) (just|garbage|trash)
    <<Lit(w_brain), Opt(<<Lit(<<"s">>)>>), Sp, Alt(<<<<Lit(w_are)>>, <<Lit(<<"i", "s">>)>>>>), Sp,
      Alt(<<<<Lit(w_just)>>, <<Lit(w_garbage)>>, <<Lit(<<"t", "r", "a", "s", "h">>)>>>>)>>,
    <<Lit(w_krov \o <<"cyr:a", "cyr:t">>), WStar>>,              \* (krovat)\w*
    \* (krov)[ao]\w*
    <<Lit(w_krov), Alt(<<<<Lit(<<"cyr:a">>)>>, <<Lit(<<"cyr:o">>)>>>>), WStar>> >>

\* characters of context kept on each side of a match
ContextWindow == 50
\* an excerpt must be longer than this to be kept as an example
ShortExcerpt == 10
\* number of examples returned
MaxExcerpts == 5

\* text[start:end].strip() for the match m
Excerpt(text, m) ==
    LET start == IF m.start - 1 - ContextWindow > 0 THEN m.start - 1 - ContextWindow ELSE 0
        end == IF m.end - 1 + ContextWindow < Len(text) THEN m.end - 1 + ContextWindow
               ELSE Len(text)
    IN Strip(SubSeq(text, start + 1, end))

\* variant: nothing is suppressed
is_false_positive_never(excerpt) == FALSE

is_false_positive(excerpt) ==
    \E n \in 1..Len(FALSE_POSITIVES) : Search(FALSE_POSITIVES[n], excerpt)

\* the excerpts appended to matches by the inner loop, for one pattern
RECURSIVE KeptExcerpts(_, _, _)
KeptExcerpts(text, found, n) ==
    IF n > Len(found) THEN <<>>
    ELSE LET excerpt == Excerpt(text, found[n]) IN
         (IF is_false_positive(excerpt) THEN <<>> ELSE <<excerpt>>)
            \o KeptExcerpts(text, found, n + 1)

\* matches after the outer loop over the patterns
RECURSIVE AllKept(_, _, _)
AllKept(patterns, text, n) ==
    IF n > Len(patterns) THEN <<>>
    ELSE KeptExcerpts(text, FindIter(patterns[n], text, 1), 1)
            \o AllKept(patterns, text, n + 1)

RECURSIVE SelectLong(_)
SelectLong(ms) ==
    IF ms = <<>> THEN <<>>
    ELSE (IF Len(Strip(Head(ms))) > ShortExcerpt THEN <<Head(ms)>> ELSE <<>>)
            \o SelectLong(Tail(ms))

\* variant: every example is returned
ReturnMatches_uncapped(count, matches) == [count |-> count, matches |-> matches]

ReturnMatches(count, matches) == [count |-> count, matches |-> Take(matches, MaxExcerpts)]

count_pattern_matches(patterns, text) ==
    LET kept == AllKept(patterns, text, 1)
    IN ReturnMatches(Len(kept), SelectLong(kept))

----------------------------------------------------------------------------
(* Caller of count_pattern_matches on a text *)

s_if_it_kills_me == Join(<<w_if, w_it, w_kills, w_me>>)
s_he_killed == Join(<<w_he, w_killed, w_the, w_soldier, w_with, w_a, w_knife>>)
s_gun_gun_gun == Join(<<w_gun, w_gun, w_gun>>)
s_make_love == Join(<<w_make, w_love>>)
\* a run of characters as long as the context window that no pattern matches
s_filler == [i \in 1..ContextWindow |-> "x"]

\* most phrases of a text
MaxPhrases == 3

Phrases == {s_if_it_kills_me, s_he_killed, s_gun_gun_gun, s_make_love, s_filler,
            w_kill, w_knife}
Texts == {Join(ps) : ps \in UNION {[1..n -> Phrases] : n \in 0..MaxPhrases}}

Lexicon(name) ==
    CASE name = "violence" -> VIOLENCE_WORDS
      [] name = "sex" -> SEX_WORDS
      [] name = "gore" -> GORE_WORDS
      [] name = "profanity" -> PROFANITY
      [] name = "drugs" -> DRUG_WORDS
      [] name = "child" -> CHILD_WORDS
      [] name = "nudity" -> NUDITY_WORDS
LexiconNames == {"violence", "sex"}

InitMatch ==
    /\ pc = "match_call"
    /\ match_patterns \in LexiconNames
    /\ match_text \in Texts
    /\ match_result = NONE
    /\ agg = NONE /\ prev = <<>> /\ rating_info = NONE
    /\ txt = NONE /\ scenes = <<>>
    /\ NoAnalysis

\* count, excerpts = count_pattern_matches(patterns, text)
CallCountPatternMatches ==
    /\ pc = "match_call"
    /\ match_result' = count_pattern_matches(Lexicon(match_patterns), match_text)
    /\ pc' = "matched"
    /\ UNCHANGED <<agg, prev, rating_info, match_patterns, match_text, txt, scenes, analysis, process>>

NextMatch == CallCountPatternMatches

SpecMatch == InitMatch /\ [][NextMatch]_vars

\* the sentences of experiments/test_false_positive_filters.py
s_as_if_molest ==
    Join(<<<<"a", "s">>, w_if, <<"c", "l", "a", "r", "k">>, <<"w", "e", "r", "e">>,
           <<"a", "b", "o", "u", "t">>, <<"t", "o">>, w_molest, w_him>>)
s_he_molested == Join(<<w_he, w_molest \o <<"e", "d">>, w_the, w_child>>)
s_brain_garbage == Join(<<<<"d", "r", "e", "a", "m", "s">>, w_are, w_just, w_brain, w_garbage>>)
s_brain_injured == Join(<<<<"h", "i", "s">>, w_brain, <<"w", "a", "s">>, w_injur \o <<"e", "d">>>>)
FilterPhrases == {s_as_if_molest, s_he_molested, s_brain_garbage, s_brain_injured}
FilterTexts == {Join(ps) : ps \in UNION {[1..n -> FilterPhrases] : n \in 0..MaxPhrases}}

InitFilter ==
    /\ pc = "match_call"
    /\ match_patterns \in {"sex", "gore"}
    /\ match_text \in FilterTexts
    /\ match_result = NONE
    /\ agg = NONE /\ prev = <<>> /\ rating_info = NONE
    /\ txt = NONE /\ scenes = <<>>
    /\ NoAnalysis

SpecFilter == InitFilter /\ [][NextMatch]_vars

----------------------------------------------------------------------------
(* Caller of count_pattern_matches with a single pattern of a keyword list *)

\* the Russian words for blood, bloodily, bleeds and bed
s_krov == w_krov \o <<"cyr:soft">>
s_krovavo == w_krov \o <<"cyr:a", "cyr:v", "cyr:o">>
s_krovotochit == w_krov \o <<"cyr:o", "cyr:t", "cyr:o", "cyr:ch", "cyr:i", "cyr:t">>
s_krovat == w_krov \o <<"cyr:a", "cyr:t", "cyr:soft">>
\* a sentence that no pattern matches
s_the_door == Join(<<w_the, <<"d", "o", "o", "r">>, <<"c", "l", "o", "s", "e", "s">>>>)
\* a word or a sentence for every pattern of the lists
KeywordPhrases ==
    {w_kill, w_killed, w_knife, w_gun, w_blood, w_injur \o <<"e", "d">>, w_brain,
     w_damn, w_drug \o <<"s">>, w_child \o <<"r", "e", "n">>, w_naked, w_sexual, w_molest,
     s_make_love, s_krov, s_krovavo, s_krovotochit, s_krovat, s_the_door}
\* every phrase alone and every two of them, one after the other
KeywordTexts == KeywordPhrases \cup {Join(<<a, b>>) : a \in KeywordPhrases, b \in KeywordPhrases}

AllLexiconNames == {"violence", "gore", "profanity", "drugs", "child", "nudity", "sex"}
\* the patterns of the lists, each as the list it is in and its place there
LexiconPatterns ==
    UNION {{[list |-> name, place |-> n] : n \in 1..Len(Lexicon(name))} : name \in AllLexiconNames}
PatternOf(p) == Lexicon(p.list)[p.place]

InitPattern ==
    /\ pc = "pattern_call"
    /\ match_patterns \in LexiconPatterns
    /\ match_text \in KeywordTexts
    /\ match_result = NONE
    /\ agg = NONE /\ prev = <<>> /\ rating_info = NONE
    /\ txt = NONE /\ scenes = <<>>
    /\ NoAnalysis

\* count, excerpts = count_pattern_matches([pattern], text)
CallWithOnePattern ==
    /\ pc = "pattern_call"
    /\ match_result' = count_pattern_matches(<<PatternOf(match_patterns)>>, match_text)
    /\ pc' = "pattern_matched"
    /\ UNCHANGED <<agg, prev, rating_info, match_patterns, match_text, txt, scenes, analysis, process>>

NextPattern == CallWithOnePattern

SpecPattern == InitPattern /\ [][NextPattern]_vars

----------------------------------------------------------------------------
(* Scene segmenter *)

\* the scene markers of the split pattern (re.I), in lower case
m_int == <<"i", "n", "t", ".">>
m_ext == <<"e", "x", "t", ".">>
m_cyr_int == <<"cyr:i", "cyr:n", "cyr:t", ".">>
m_cyr_ext == <<"cyr:e", "cyr:k", "cyr:s", "cyr:t", ".">>
s_scene_heading == <<"s", "c", "e", "n", "e", "_", "h", "e", "a", "d", "i", "n", "g">>
s_scene_heading_sp == <<"s", "c", "e", "n", "e", " ", "h", "e", "a", "d", "i", "n", "g">>
SCENE_MARKERS == <<
    <<Lit(m_int)>>, <<Lit(m_ext)>>, <<Lit(m_cyr_int)>>, <<Lit(m_cyr_ext)>>,
    <<Lit(s_scene_heading), SStar, Lit(<<":">>)>>,
    <<Lit(s_scene_heading_sp), SStar, Lit(<<":">>)>> >>
\* ((?:INT\.|EXT\.|...).{0,120})
HeadingSpan == 120
HEADING == <<Alt(<<<<Lit(m_int)>>, <<Lit(m_ext)>>, <<Lit(m_cyr_int)>>, <<Lit(m_cyr_ext)>>>>),
             AnyUpTo(HeadingSpan)>>
\* a fragment shorter than this is skipped
MinSceneLength == 20
\* fewer scenes than this: the whole text is one scene
MinScenes == 3

s_full_script == <<"f", "u", "l", "l", "_", "s", "c", "r", "i", "p", "t">>
s_scene_ == <<"s", "c", "e", "n", "e", "_">>
DigitChars == <<"0", "1", "2", "3", "4", "5", "6", "7", "8", "9">>
\* str(n) for n >= 0
RECURSIVE Str(_)
Str(n) == IF n < 10 THEN <<DigitChars[n + 1]>> ELSE Str(n \div 10) \o <<DigitChars[(n % 10) + 1]>>

\* the lookahead of the split pattern holds at position i
MarkerAt(t, i) == \E n \in 1..Len(SCENE_MARKERS) : EndsSeq(SCENE_MARKERS[n], 1, t, i) # <<>>

\* re.split on the lookahead: the text is cut before every marker; a marker
\* at the very start leaves an empty first part
Cuts(t) == {i \in 1..Len(t) : MarkerAt(t, i)}
RECURSIVE SplitFrom(_, _, _)
SplitFrom(t, from, cuts) ==
    IF cuts = {} THEN <<SubSeq(t, from, Len(t))>>
    ELSE LET i == Least(cuts)
         IN <<SubSeq(t, from, i - 1)>> \o SplitFrom(t, i, cuts \ {i})
Split(t) == SplitFrom(t, 1, Cuts(t))

Heading(text, idx) ==
    LET e == EndsSeq(HEADING, 1, text, 1)
    IN IF e # <<>> THEN Strip(SubSeq(text, 1, e[1] - 1)) ELSE s_scene_ \o Str(idx)

\* the loop over the parts
RECURSIVE ScenesOfParts(_, _, _)
ScenesOfParts(parts, n, idx) ==
    IF n > Len(parts) THEN <<>>
    ELSE LET text == Strip(parts[n]) IN
         IF text = <<>> \/ Len(text) < MinSceneLength
         THEN ScenesOfParts(parts, n + 1, idx)
         ELSE <<[scene_id |-> idx, heading |-> Heading(text, idx), text |-> text]>>
                \o ScenesOfParts(parts, n + 1, idx + 1)

FullScript(t) == <<[scene_id |-> 0, heading |-> s_full_script, text |-> t]>>

\* variant: the fallback is dropped
Fallback_never(found, t) == found

Fallback(found, t) == IF Len(found) < MinScenes THEN FullScript(t) ELSE found

parse_script_to_scenes(t) == Fallback(ScenesOfParts(Split(t), 1, 0), t)

----------------------------------------------------------------------------
(* Caller of parse_script_to_scenes on a document text *)

\* a scene of exactly MinSceneLength characters, a scene under a Cyrillic
\* marker, text without a marker, a marker with too little text, and a word
\* that ends in the letters of a marker
b_scene == <<"I", "N", "T", ".", " ", "t", "h", "e", " ", "d", "o", "o", "r", " ", "c", "l", "o", "s", "e", "s", "\n">>
b_cyr_scene == <<"CYR:I", "CYR:N", "CYR:T", ".", " ", "a", " ", "d", "a", "r", "k", " ", "r", "o", "o", "m", " ", "a", "t", " ", "n", "i", "g", "h", "t", "\n">>
b_long == <<"a", " ", "d", "a", "r", "k", " ", "r", "o", "o", "m", " ", "a", "t", " ", "n", "i", "g", "h", "t", "\n">>
b_short == <<"E", "X", "T", ".", " ", "r", "a", "i", "n", "\n">>
b_point == <<"t", "o", " ", "t", "h", "e", " ", "p", "o", "i", "n", "t", ".", " ">>

\* most blocks of a document
MaxBlocks == 4

Blocks == {b_scene, b_cyr_scene, b_long, b_short, b_point}
RECURSIVE Concat(_)
Concat(bs) == IF bs = <<>> THEN <<>> ELSE Head(bs) \o Concat(Tail(bs))
Documents == {Concat(bs) : bs \in UNION {[1..n -> Blocks] : n \in 0..MaxBlocks}}

InitParse ==
    /\ pc = "parse_call"
    /\ txt \in Documents
    /\ scenes = <<>>
    /\ agg = NONE /\ prev = <<>> /\ rating_info = NONE
    /\ match_patterns = NONE /\ match_text = NONE /\ match_result = NONE
    /\ NoAnalysis

\* scenes = parse_script_to_scenes(txt)
CallParseScriptToScenes ==
    /\ pc = "parse_call"
    /\ scenes' = parse_script_to_scenes(txt)
    /\ pc' = "parsed"
    /\ UNCHANGED <<txt, agg, prev, rating_info, match_patterns, match_text, match_result, analysis, process>>

NextParse == CallParseScriptToScenes

SpecParse == InitParse /\ [][NextParse]_vars

----------------------------------------------------------------------------
(* Scene scorer: extract_scene_features and normalize_and_contextualize_scores *)

CONTEXT_TYPES == {"graphic_violence", "stylized_action", "sexual_content", "mild_romance",
                  "horror_violence", "profanity_context", "drug_abuse",
                  "child_endangerment", "discussion_violence", "thriller_tension"}

Whole(n) == Rat(n, 1)
\* a / b for b > 0
RDiv(a, b) == RMul(a, [num |-> b.den, den |-> b.num])
\* variant: the length is not floored
max1_not(L) == L

\* max(1, L)
max1(L) == IF L > 1 THEN L ELSE 1

\* len(txt.split())
WordCount(t) ==
    Cardinality({i \in 1..Len(t) :
                    t[i] \notin SpaceChars /\ (i = 1 \/ t[i - 1] \in SpaceChars)})

\* the context scores the loaded model gives a text: the model is a function
\* of the text alone, here of the class the text falls in; model holds the
\* answers of the classes asked so far
TextClasses == {0, 1}
TextClass(scene_text) == Len(scene_text) % Cardinality(TextClasses)
analyze_scene_context(model, scene_text) == model[TextClass(scene_text)]

w_and == <<"a", "n", "d">>
w_x == <<"x">>
s_int_ == <<"I", "N", "T", ".", " ">>
s_ext_ == <<"E", "X", "T", ".", " ">>
\* a scene with 2 violence keywords, a scene with one keyword of nudity, of
\* minors and of drugs, and a scene of 50 words with 3 violence keywords
b_shot == s_int_ \o s_he_killed \o <<"\n">>
b_fight ==
    s_int_ \o Join(<<w_he, w_killed, w_the, w_soldier, w_with, w_a, w_knife, w_and, w_a,
                     w_gun>> \o [i \in 1..39 |-> w_x]) \o <<"\n">>
b_vice == s_ext_ \o Join(<<w_naked, w_child, w_with, w_drug \o <<"s">>>>) \o <<"\n">>

SceneBlocks == {b_scene, b_shot, b_vice}

\* the only member of a set of one value
The(S) == CHOOSE x \in S : TRUE

\* the seven calls of count_pattern_matches
LexicalFeatures(t) ==
    The({[violence_count |-> violence.count, violence_excerpts |-> violence.matches,
          gore_count |-> gore.count, gore_excerpts |-> gore.matches,
          profanity_count |-> profanity.count, profanity_excerpts |-> profanity.matches,
          drugs_count |-> drugs.count, drugs_excerpts |-> drugs.matches,
          child_count |-> child.count, child_excerpts |-> child.matches,
          nudity_count |-> nudity.count, nudity_excerpts |-> nudity.matches,
          sex_count |-> sex.count, sex_excerpts |-> sex.matches] :
            violence \in {count_pattern_matches(VIOLENCE_WORDS, t)},
            gore \in {count_pattern_matches(GORE_WORDS, t)},
            profanity \in {count_pattern_matches(PROFANITY, t)},
            drugs \in {count_pattern_matches(DRUG_WORDS, t)},
            child \in {count_pattern_matches(CHILD_WORDS, t)},
            nudity \in {count_pattern_matches(NUDITY_WORDS, t)},
            sex \in {count_pattern_matches(SEX_WORDS, t)}})

\* the features of a scene whose lowered text is t
FeaturesOfLowered(model, scene_text, t) ==
    The({[violence_count |-> lexical.violence_count,
          violence_excerpts |-> lexical.violence_excerpts,
          gore_count |-> lexical.gore_count,
          gore_excerpts |-> lexical.gore_excerpts,
          profanity_count |-> lexical.profanity_count,
          profanity_excerpts |-> lexical.profanity_excerpts,
          drugs_count |-> lexical.drugs_count,
          drugs_excerpts |-> lexical.drugs_excerpts,
          child_count |-> lexical.child_count,
          child_excerpts |-> lexical.child_excerpts,
          nudity_count |-> lexical.nudity_count,
          nudity_excerpts |-> lexical.nudity_excerpts,
          sex_count |-> lexical.sex_count,
          sex_excerpts |-> lexical.sex_excerpts,
          length |-> max1(WordCount(t)),
          context_scores |-> analyze_scene_context(model, scene_text)] :
            lexical \in {LexicalFeatures(t)}})

\* txt = scene_text.lower() and the features counted on it
extract_scene_features(model, scene_text) ==
    The({FeaturesOfLowered(model, scene_text, t) : t \in {Lower(scene_text)}})

\* variant: additive smoothing of the density
density_smoothed(count, L) == Rat(count + 1, max1(L))

\* count / max(1, L)
density(count, L) == Rat(count, max1(L))

\* variant: one mention in ten words is 1.0
raw_by_ten(d) == RMul(d, Whole(10))

\* density * 100
raw(d) == RMul(d, Whole(100))

\* variant: the stylized-action dampener is applied beside the other one
Dampener_stacking(ctx, stylized) ==
    RMul(IF RGt(ctx.discussion_violence, Pct(55)) \/ RGt(ctx.thriller_tension, Pct(50))
         THEN Pct(30) ELSE One,
         IF RGt(ctx.stylized_action, Pct(50)) THEN stylized ELSE One)

\* the discussion / thriller dampener, else the stylized-action dampener
Dampener(ctx, stylized) ==
    IF RGt(ctx.discussion_violence, Pct(55)) \/ RGt(ctx.thriller_tension, Pct(50))
    THEN Pct(30)
    ELSE IF RGt(ctx.stylized_action, Pct(50)) THEN stylized ELSE One

Amplified(m, cond, factor) == IF cond THEN RMul(m, factor) ELSE m

violence_multiplier(ctx) ==
    Amplified(Amplified(Dampener(ctx, Pct(60)),
                        RGt(ctx.graphic_violence, Pct(60)), Pct(130)),
              RGt(ctx.horror_violence, Pct(55)), Pct(120))

gore_multiplier(ctx) ==
    Amplified(Amplified(Dampener(ctx, Pct(70)),
                        RGt(ctx.graphic_violence, Pct(60)), Pct(140)),
              RGt(ctx.horror_violence, Pct(55)), Pct(130))

\* variant: the product is not clamped
clamped_not(x) == x

\* min(1.0, x)
clamped(x) == RMin(One, x)

sex_score(sex_raw, ctx) ==
    IF RGt(ctx.sexual_content, Pct(60)) /\ sex_raw > 0
    THEN RMin(One, RMul(Whole(sex_raw), Pct(150)))
    ELSE IF RGt(ctx.mild_romance, Pct(50))
    THEN RMin(Pct(30), RMul(Whole(sex_raw), Pct(50)))
    ELSE RMin(One, Whole(sex_raw))

drugs_score(drugs_count, ctx) ==
    IF RGt(ctx.drug_abuse, Pct(55))
    THEN RMin(One, Rat(drugs_count, 2))
    ELSE RMin(One, Rat(drugs_count, 5))

\* variant: without confirming context the score is capped at 1.0
child_risk_score_uncapped(child_count, ctx) ==
    IF child_count > 0
    THEN IF RGt(ctx.child_endangerment, Pct(50))
         THEN RMin(One, Rat(child_count, 2))
         ELSE RMin(One, Rat(child_count, 5))
    ELSE Zero

child_risk_score(child_count, ctx) ==
    IF child_count > 0
    THEN IF RGt(ctx.child_endangerment, Pct(50))
         THEN RMin(One, Rat(child_count, 2))
         ELSE RMin(Pct(50), Rat(child_count, 5))
    ELSE Zero

normalize_and_contextualize_scores(f) ==
    LET L == f.length
        ctx == f.context_scores
        violence_raw == raw(density(f.violence_count, L))
        gore_raw == raw(density(f.gore_count, L))
    IN [violence |-> clamped(RMul(violence_raw, violence_multiplier(ctx))),
        gore |-> clamped(RMul(gore_raw, gore_multiplier(ctx))),
        sex_act |-> sex_score(f.sex_count, ctx),
        nudity |-> RMin(One, Rat(f.nudity_count, 3)),
        profanity |-> RMin(One, RDiv(Whole(f.profanity_count), Rat(L, 100))),
        drugs |-> drugs_score(f.drugs_count, ctx),
        child_risk |-> child_risk_score(f.child_count, ctx),
        context_scores |-> ctx,
        excerpts |-> [violence |-> f.violence_excerpts,
                      gore |-> f.gore_excerpts,
                      sex |-> f.sex_excerpts,
                      nudity |-> f.nudity_excerpts,
                      profanity |-> f.profanity_excerpts,
                      drugs |-> f.drugs_excerpts]]

----------------------------------------------------------------------------
(* Recommendations for a scene *)

REC_VIOLENCE_HIGH == "Nasilie (vysokoe)"
REC_VIOLENCE_MODERATE == "Nasilie (umerennoe)"
REC_GORE_HIGH == "Krov/uvechya (vysokoe)"
REC_GORE_MODERATE == "Krov/uvechya (umerennoe)"
REC_SEX_EXPLICIT == "Seksualnyi kontent (eksplicitnyi)"
REC_SEX_MODERATE == "Seksualnyi kontent (umerennyi)"
REC_NUDITY == "Nagota"
REC_PROFANITY_FREQUENT == "Nenormativnaya leksika (chastaya)"
REC_PROFANITY_COARSE == "Grubaya leksika"
REC_DRUGS == "Narkotiki/alkogol"
REC_CHILD == "Deti v opasnosti"
REC_NONE == "Scena ne soderzhit znachimyh problemnyh elementov."

\* if score >= high: [msg_high] elif score >= low: [msg_low]
\* a ladder that gives a message for each tier reached
Ladder_stacking(score, high, msg_high, low, msg_low) ==
    If1(RGe(score, high), msg_high) \o If1(RGe(score, low), msg_low)

\* if score >= high: ... elif score >= low: ...
Ladder(score, high, msg_high, low, msg_low) ==
    IF RGe(score, high) THEN <<msg_high>>
    ELSE IF RGe(score, low) THEN <<msg_low>> ELSE <<>>

\* the recommendations without the message for a scene without issues
generate_scene_recommendations_bare(scene_scores) ==
       Ladder(scene_scores.violence, Pct(70), REC_VIOLENCE_HIGH, Pct(40), REC_VIOLENCE_MODERATE)
    \o Ladder(scene_scores.gore, Pct(60), REC_GORE_HIGH, Pct(30), REC_GORE_MODERATE)
    \o Ladder(scene_scores.sex_act, Pct(60), REC_SEX_EXPLICIT, Pct(30), REC_SEX_MODERATE)
    \o If1(RGe(scene_scores.nudity, Pct(40)), REC_NUDITY)
    \o Ladder(scene_scores.profanity, Pct(50), REC_PROFANITY_FREQUENT,
              Pct(30), REC_PROFANITY_COARSE)
    \o If1(RGe(scene_scores.drugs, Pct(40)), REC_DRUGS)
    \o If1(RGe(scene_scores.child_risk, Pct(50)), REC_CHILD)

generate_scene_recommendations(scene_scores) ==
    LET recommendations ==
            Ladder(scene_scores.violence, Pct(70), REC_VIOLENCE_HIGH,
                   Pct(40), REC_VIOLENCE_MODERATE)
         \o Ladder(scene_scores.gore, Pct(60), REC_GORE_HIGH, Pct(30), REC_GORE_MODERATE)
         \o Ladder(scene_scores.sex_act, Pct(60), REC_SEX_EXPLICIT,
                   Pct(30), REC_SEX_MODERATE)
         \o If1(RGe(scene_scores.nudity, Pct(40)), REC_NUDITY)
         \o Ladder(scene_scores.profanity, Pct(50), REC_PROFANITY_FREQUENT,
                   Pct(30), REC_PROFANITY_COARSE)
         \o If1(RGe(scene_scores.drugs, Pct(40)), REC_DRUGS)
         \o If1(RGe(scene_scores.child_risk, Pct(50)), REC_CHILD)
    IN IF recommendations = <<>> THEN <<REC_NONE>> ELSE recommendations

----------------------------------------------------------------------------
(* Aggregation, ranking and the result of analyze_script_file *)

\* values in ascending order
RECURSIVE InsertAscending(_, _)
InsertAscending(x, s) ==
    IF s = <<>> THEN <<x>>
    ELSE IF RLe(x, Head(s)) THEN <<x>> \o s
    ELSE <<Head(s)>> \o InsertAscending(x, Tail(s))
RECURSIVE Sorted(_)
Sorted(values) ==
    IF values = <<>> THEN <<>> ELSE InsertAscending(Head(values), Sorted(Tail(values)))

\* np.max(values)
RECURSIVE Max(_)
Max(values) ==
    IF Len(values) = 1 THEN values[1] ELSE RMax(Head(values), Max(Tail(values)))

\* variant: the percentile is the higher of the two values next to the rank
percentile_higher(values, q) ==
    LET s == Sorted(values)
        n == Len(s)
        below == ((n - 1) * q) \div 100
    IN IF below + 1 >= n \/ ((n - 1) * q) % 100 = 0 THEN s[below + 1] ELSE s[below + 2]

\* np.percentile(values, q): linear interpolation between the order
\* statistics next to the rank (n - 1) * q / 100
percentile(values, q) ==
    LET s == Sorted(values)
        n == Len(s)
        below == ((n - 1) * q) \div 100
        fraction == Rat(((n - 1) * q) % 100, 100)
    IN IF below + 1 >= n THEN s[n]
       ELSE RAdd(s[below + 1], RMul(RSub(s[below + 2], s[below + 1]), fraction))

Column(rows, k) == [i \in 1..Len(rows) |-> rows[i][k]]

\* variant: every category is aggregated as violence and gore are
AggregateKey_uniform(k, values) ==
    RAdd(RMul(Max(values), Pct(70)), RMul(percentile(values, 95), Pct(30)))

\* the body of the loop over score_keys
AggregateKey(k, values) ==
    LET max_val == Max(values)
        p95_val == percentile(values, 95)
        p90_val == percentile(values, 90)
    IN IF k \in {"violence", "gore"}
       THEN RAdd(RMul(max_val, Pct(70)), RMul(p95_val, Pct(30)))
       ELSE IF k \in {"sex_act", "nudity", "child_risk"}
       THEN RAdd(RMul(max_val, Pct(85)), RMul(p90_val, Pct(15)))
       ELSE percentile(values, 90)

\* all_excerpts[key] after the loop over the scenes
RECURSIVE Pooled(_, _)
Pooled(rows, key) ==
    IF rows = <<>> THEN <<>> ELSE Head(rows).excerpts[key] \o Pooled(Tail(rows), key)

Aggregate(rows) ==
    [violence |-> AggregateKey("violence", Column(rows, "violence")),
     gore |-> AggregateKey("gore", Column(rows, "gore")),
     sex_act |-> AggregateKey("sex_act", Column(rows, "sex_act")),
     nudity |-> AggregateKey("nudity", Column(rows, "nudity")),
     profanity |-> AggregateKey("profanity", Column(rows, "profanity")),
     drugs |-> AggregateKey("drugs", Column(rows, "drugs")),
     child_risk |-> AggregateKey("child_risk", Column(rows, "child_risk")),
     excerpts |-> [key \in Range(excerpt_keys) |-> Take(Pooled(rows, key), 5)]]

\* variant: nudity weighs 0.5 in the ranking
Weight_nudity(score) ==
    RAdd(RAdd(RAdd(RAdd(RAdd(RAdd(RMul(score.violence, Pct(50)),
                                  RMul(score.gore, Pct(80))),
                             RMul(score.sex_act, Pct(90))),
                        RMul(score.profanity, Pct(30))),
                   RMul(score.drugs, Pct(30))),
              RMul(score.child_risk, Pct(70))),
         RMul(score.nudity, Pct(50)))

Weight(score) ==
    RAdd(RAdd(RAdd(RAdd(RAdd(RMul(score.violence, Pct(50)),
                             RMul(score.gore, Pct(80))),
                        RMul(score.sex_act, Pct(90))),
                   RMul(score.profanity, Pct(30))),
              RMul(score.drugs, Pct(30))),
         RMul(score.child_risk, Pct(70)))

\* ranking.sort(reverse=True, key=weight): descending, equal weights keep
\* their order
RECURSIVE InsertDescending(_, _)
InsertDescending(x, s) ==
    IF s = <<>> THEN <<x>>
    ELSE IF RGe(x.weight, Head(s).weight) THEN <<x>> \o s
    ELSE <<Head(s)>> \o InsertDescending(x, Tail(s))
\* variant: the ranking is left in scene order
SortedDescending_not(ranking) == ranking

RECURSIVE SortedDescending(_)
SortedDescending(ranking) ==
    IF ranking = <<>> THEN <<>>
    ELSE InsertDescending(Head(ranking), SortedDescending(Tail(ranking)))

Ranking(scene_list, score_list) ==
    SortedDescending([i \in 1..Len(scene_list) |->
        [weight |-> Weight(score_list[i]), scene |-> scene_list[i],
         score |-> score_list[i]]])

(* round(x, digits) for x >= 0.  The program rounds the binary double that   *)
(* the score was computed to; it is the nearest decimal of the real value  *)
(* unless the real value lies halfway between two decimals, where the      *)
(* double may fall on either side: both neighbours are possible results.   *)
Rounds(x, digits) ==
    LET scale == 10 ^ digits
        n == x.num * scale
        q == n \div x.den
        r == n % x.den
    IN IF 2 * r < x.den THEN {Rat(q, scale)}
       ELSE IF 2 * r > x.den THEN {Rat(q + 1, scale)}
       ELSE {Rat(q, scale), Rat(q + 1, scale)}

\* {k: round(values[k], digits) for k in score_keys}
RECURSIVE RoundedFrom(_, _, _)
RoundedFrom(values, n, digits) ==
    IF n > Len(score_keys) THEN {<<>>}
    ELSE {<<r>> \o rest : r \in Rounds(values[score_keys[n]], digits),
                          rest \in RoundedFrom(values, n + 1, digits)}
Rounded(values, digits) ==
    {[k \in Range(score_keys) |-> rs[CHOOSE n \in 1..Len(score_keys) : score_keys[n] = k]] :
        rs \in RoundedFrom(values, 1, digits)}

\* variant: every ranked scene is shown
significant_always(weight) == TRUE

\* weight > 0.1
significant(weight) == RGt(weight, Pct(10))

\* scene['text'][:300].replace('\n', ' ') + '...'
SampleText(text) ==
    LET head == Take(text, 300)
    IN [i \in 1..Len(head) |-> IF head[i] = "\n" THEN " " ELSE head[i]] \o <<".", ".", ".">>

TriggerScene(entry) ==
    {[scene_id |-> entry.scene.scene_id,
      heading |-> entry.scene.heading,
      sample_text |-> SampleText(entry.scene.text),
      weight |-> weight,
      scores |-> rounded,
      recommendations |-> generate_scene_recommendations(entry.score)] :
        weight \in Rounds(entry.weight, 3), rounded \in Rounded(entry.score, 2)}

\* the loop over ranking[:5]: the lists top_scenes may end as
RECURSIVE TopScenes(_)
TopScenes(ranked) ==
    IF ranked = <<>> THEN {<<>>}
    ELSE IF significant(Head(ranked).weight)
    THEN {<<first>> \o rest : first \in TriggerScene(Head(ranked)),
                              rest \in TopScenes(Tail(ranked))}
    ELSE TopScenes(Tail(ranked))

Result(a, info, top, scene_list) ==
    {[predicted_rating |-> info.rating,
      reasons |-> info.reasons,
      evidence_excerpts |-> info.evidence_excerpts,
      aggregated_scores |-> rounded,
      top_trigger_scenes |-> top,
      total_scenes |-> Len(scene_list)] : rounded \in Rounded(a, 3)}

----------------------------------------------------------------------------
(* Caller of normalize_and_contextualize_scores on an arbitrary feature record *)

\* context scores of a scene: every archetype at the same similarity but
\* the named ones
Context(base, raised, high) ==
    [c \in CONTEXT_TYPES |-> IF c \in raised THEN Pct(high) ELSE Pct(base)]

Calm == Context(30, {}, 30)
Charged == Context(30, {"graphic_violence", "horror_violence", "sexual_content",
                        "drug_abuse", "child_endangerment"}, 70)
ContextProfiles ==
    {Calm, Charged,
     Context(49, {}, 49),
     Context(0 - 10, {}, 0),
     Context(90, {}, 90),
     Context(30, {"discussion_violence"}, 56),
     Context(30, {"stylized_action", "mild_romance"}, 51),
     Context(50, {"graphic_violence", "sexual_content", "discussion_violence",
                  "horror_violence", "drug_abuse"}, 55),
     Context(30, {"thriller_tension", "graphic_violence"}, 61),
     Context(30, {"stylized_action", "horror_violence"}, 61)}

\* largest match count of a category
MaxCount == 2
Lengths == {1, 250}

Features(v, g, p, d, c, n, s, L, ctx) ==
    [violence_count |-> v, violence_excerpts |-> <<>>,
     gore_count |-> g, gore_excerpts |-> <<>>,
     profanity_count |-> p, profanity_excerpts |-> <<>>,
     drugs_count |-> d, drugs_excerpts |-> <<>>,
     child_count |-> c, child_excerpts |-> <<>>,
     nudity_count |-> n, nudity_excerpts |-> <<>>,
     sex_count |-> s, sex_excerpts |-> <<>>,
     length |-> L, context_scores |-> ctx]

InitScene ==
    /\ pc = "scene_call"
    /\ \E v \in 0..MaxCount, g \in 0..MaxCount, p \in 0..MaxCount, d \in 0..MaxCount,
          c \in 0..MaxCount, n \in 0..MaxCount, s \in 0..MaxCount,
          L \in Lengths, ctx \in ContextProfiles :
            features = <<Features(v, g, p, d, c, n, s, L, ctx)>>
    /\ scores = <<>>
    /\ embedder = NONE /\ top_scenes = <<>> /\ result = NONE
    /\ agg = NONE /\ prev = <<>> /\ rating_info = NONE
    /\ match_patterns = NONE /\ match_text = NONE /\ match_result = NONE
    /\ txt = NONE /\ scenes = <<>>
    /\ NoBatch

\* scores = normalize_and_contextualize_scores(features)
CallNormalizeAndContextualizeScores ==
    /\ pc = "scene_call"
    /\ scores' = <<normalize_and_contextualize_scores(features[1])>>
    /\ pc' = "scored"
    /\ UNCHANGED <<agg, prev, rating_info, match_patterns, match_text, match_result, txt,
                   scenes, embedder, features, top_scenes, result, process>>

NextScene == CallNormalizeAndContextualizeScores

SpecScene == InitScene /\ [][NextScene]_vars

\* scenes of 10, 25, 50, 100 and 250 words in which only violence and gore
\* have matches
DensityLengths == {10, 25, 50, 100, 250}

InitDensity ==
    /\ pc = "scene_call"
    /\ \E v \in 0..MaxCount, g \in 0..MaxCount, L \in DensityLengths, ctx \in ContextProfiles :
            features = <<Features(v, g, 0, 0, 0, 0, 0, L, ctx)>>
    /\ scores = <<>>
    /\ embedder = NONE /\ top_scenes = <<>> /\ result = NONE
    /\ agg = NONE /\ prev = <<>> /\ rating_info = NONE
    /\ match_patterns = NONE /\ match_text = NONE /\ match_result = NONE
    /\ txt = NONE /\ scenes = <<>>
    /\ NoBatch

SpecDensity == InitDensity /\ [][NextScene]_vars

----------------------------------------------------------------------------
(* analyze_script_file on a document *)

\* most scene blocks of a script
MaxScenes == 5

ShortScripts == {Concat(bs) : bs \in UNION {[1..n -> SceneBlocks] : n \in 0..MaxScenes}}
LongScripts == {Concat([i \in 1..n |-> b_fight]) : n \in 1..3}
\* scripts without a scene marker: no text, blank text, plain text
PlainScripts == {<<>>, <<" ", "\n">>, b_long, s_he_killed, b_long \o s_he_killed}
Scripts == ShortScripts \cup LongScripts \cup PlainScripts

\* the context scores the loaded model may give
EmbedderAnswers == {Calm, Charged}
\* a model the last answer of which sways its answers for the texts before
Asked_swayed(model, scene_text, ctx) ==
    [c \in DOMAIN model \cup {TextClass(scene_text)} |-> ctx]

\* the model after it has answered ctx for the text
Asked(model, scene_text, ctx) ==
    [c \in DOMAIN model \cup {TextClass(scene_text)} |->
        IF c = TextClass(scene_text) THEN ctx ELSE model[c]]

InitAnalyze ==
    /\ pc = "analyze_call"
    /\ txt \in Scripts
    /\ embedder = <<>>
    /\ scenes = <<>> /\ features = <<>> /\ scores = <<>>
    /\ agg = NONE /\ rating_info = NONE /\ top_scenes = <<>> /\ result = NONE
    /\ prev = <<>>
    /\ match_patterns = NONE /\ match_text = NONE /\ match_result = NONE
    /\ NoBatch

\* scenes = parse_script_to_scenes(txt)
ParseScript ==
    /\ pc = "analyze_call"
    /\ scenes' = parse_script_to_scenes(txt)
    /\ pc' = "features"
    /\ UNCHANGED <<agg, prev, rating_info, match_patterns, match_text, match_result, txt,
                   analysis, process>>

\* a reader of the context embeddings that encodes the templates anew
ReadContextEmbeddings_encoding ==
    /\ context_embeddings' = "encoded"
    /\ template_encodings' = template_encodings + 1

\* analyze_scene_context reads context_embeddings
ReadContextEmbeddings ==
    /\ context_embeddings = "encoded"
    /\ UNCHANGED <<context_embeddings, template_encodings>>

\* one turn of the loop: features.append(extract_scene_features(scene['text']))
ExtractSceneFeatures ==
    /\ pc = "features"
    /\ Len(features) < Len(scenes)
    /\ LET scene_text == scenes[Len(features) + 1].text IN
       \E ctx \in EmbedderAnswers :
          /\ TextClass(scene_text) \in DOMAIN embedder
                => ctx = embedder[TextClass(scene_text)]
          /\ embedder' = Asked(embedder, scene_text, ctx)
          /\ features' = Append(features, extract_scene_features(embedder', scene_text))
    /\ ReadContextEmbeddings
    /\ UNCHANGED <<pc, agg, prev, rating_info, match_patterns, match_text, match_result,
                   txt, scenes, scores, top_scenes, result, error, scenario_files,
                   scenario, all_results>>

\* scores = [normalize_and_contextualize_scores(f) for f in features]
\* (a scene of length 0 would make the divisor L / 100 of the profanity
\* score 0.0 and the division raise ZeroDivisionError)
NormalizeScores ==
    /\ pc = "features"
    /\ Len(features) = Len(scenes)
    /\ IF \E i \in 1..Len(features) : features[i].length = 0
       THEN pc' = "raised" /\ scores' = scores /\ error' = "ZeroDivisionError"
       ELSE /\ scores' = [i \in 1..Len(features) |->
                            normalize_and_contextualize_scores(features[i])]
            /\ pc' = "aggregate"
            /\ error' = error
    /\ UNCHANGED <<agg, prev, rating_info, match_patterns, match_text, match_result,
                   txt, scenes, embedder, features, top_scenes, result,
                   context_embeddings, template_encodings, scenario_files, scenario,
                   all_results>>

\* the loop over score_keys and the pooling of the excerpts
AggregateScores ==
    /\ pc = "aggregate"
    /\ agg' = Aggregate(scores)
    /\ pc' = "rate"
    /\ UNCHANGED <<prev, rating_info, match_patterns, match_text, match_result, txt,
                   scenes, analysis, process>>

\* rating_info = map_scores_to_rating(agg)
RateScript ==
    /\ pc = "rate"
    /\ rating_info' = map_scores_to_rating(agg)
    /\ pc' = "rank"
    /\ UNCHANGED <<agg, prev, match_patterns, match_text, match_result, txt, scenes,
                   analysis, process>>

\* ranking, its sort, and the loop over ranking[:5]
RankScenes ==
    /\ pc = "rank"
    /\ top_scenes' \in TopScenes(Take(Ranking(scenes, scores), 5))
    /\ pc' = "return"
    /\ UNCHANGED <<agg, prev, rating_info, match_patterns, match_text, match_result,
                   txt, scenes, embedder, features, scores, result, process>>

ReturnResult ==
    /\ pc = "return"
    /\ result' \in Result(agg, rating_info, top_scenes, scenes)
    /\ pc' = "analyzed"
    /\ UNCHANGED <<agg, prev, rating_info, match_patterns, match_text, match_result,
                   txt, scenes, embedder, features, scores, top_scenes, process>>

NextAnalyze ==
    \/ ParseScript
    \/ ExtractSceneFeatures
    \/ NormalizeScores
    \/ AggregateScores
    \/ RateScript
    \/ RankScenes
    \/ ReturnResult

SpecAnalyze == InitAnalyze /\ [][NextAnalyze]_vars

(* The scene scorer and the document pipeline together *)
Init == InitScene \/ InitAnalyze
Next == NextScene \/ NextAnalyze
Spec == Init /\ [][Next]_vars

(* The document pipeline and the rating of arbitrary score vectors together *)
InitExcerpts == InitAnalyze \/ InitRating
NextExcerpts == NextAnalyze \/ NextRating
SpecExcerpts == InitExcerpts /\ [][NextExcerpts]_vars

----------------------------------------------------------------------------
(* analyze_script_file from the aggregation on, for arbitrary scene scores *)

\* most scenes of a scored document
MaxListed == 6

SceneScore(v, g, s, n, p, d, c) ==
    [violence |-> v, gore |-> g, sex_act |-> s, nudity |-> n, profanity |-> p,
     drugs |-> d, child_risk |-> c, context_scores |-> Calm, excerpts |-> NoExcerpts]
\* a scene of ranking weight exactly 0.1, one of weight 30/299 (one
\* profanity in 299 words), a violent scene and an adult scene
Faint == SceneScore(Pct(20), Zero, Zero, Zero, Zero, Zero, Zero)
Mild == SceneScore(Zero, Zero, Zero, Zero, Rat(100, 299), Zero, Zero)
Violent == SceneScore(One, Pct(50), Zero, Zero, Zero, Pct(20), Zero)
Adult == SceneScore(Zero, Zero, One, Rat(1, 3), Pct(50), Zero, Pct(50))
SceneScores == {Faint, Mild, Violent, Adult}

\* the scene list of a document of n scenes: one scene is the whole
\* script, three or more are the fragments under their headings
ScenesOf(n) ==
    IF n = 1 THEN FullScript(b_long)
    ELSE [i \in 1..n |-> [scene_id |-> i - 1, heading |-> Strip(b_scene), text |-> Strip(b_scene)]]

InitScored ==
    /\ pc = "aggregate"
    /\ \E n \in (1..MaxListed) \ {2} :
          /\ scenes = ScenesOf(n)
          /\ scores \in [1..n -> SceneScores]
    /\ txt = NONE /\ embedder = <<>> /\ features = <<>>
    /\ agg = NONE /\ rating_info = NONE /\ top_scenes = <<>> /\ result = NONE
    /\ prev = <<>>
    /\ match_patterns = NONE /\ match_text = NONE /\ match_result = NONE
    /\ NoBatch

NextScored ==
    \/ AggregateScores
    \/ RateScript
    \/ RankScenes
    \/ ReturnResult

SpecScored == InitScored /\ [][NextScored]_vars

----------------------------------------------------------------------------
(* The process: the module is imported, then the batch driver of            *)
(* experiments/test_all_scenarios.py tests its scenario files one by one    *)

\* most files of a batch
MaxFiles == 3

\* a file the reading of which raises (not readable, a PDF without PDF
\* support)
UNREADABLE == [readable |-> FALSE, text |-> <<>>]
\* a file of the text t
File(t) == [readable |-> TRUE, text |-> t]
\* the texts of the readable files: no text, three scenes, one violent scene
ScenarioTexts == {<<>>, b_scene \o b_shot \o b_vice, b_fight}
\* the existing scenario files, the English ones followed by the Russian
\* ones; a file is named by its place in the list
ScenarioFiles == {File(t) : t \in ScenarioTexts} \cup {UNREADABLE}
Batches == UNION {[1..n -> ScenarioFiles] : n \in 0..MaxFiles}

InitProcess ==
    /\ pc = "import"
    /\ embedder = NONE /\ context_embeddings = NONE /\ template_encodings = 0
    /\ scenario_files \in Batches
    /\ scenario = 0 /\ all_results = <<>> /\ error = NONE
    /\ txt = NONE /\ scenes = <<>> /\ features = <<>> /\ scores = <<>>
    /\ agg = NONE /\ rating_info = NONE /\ top_scenes = <<>> /\ result = NONE
    /\ prev = <<>>
    /\ match_patterns = NONE /\ match_text = NONE /\ match_result = NONE

\* import repair_pipeline: the model is loaded and the context templates
\* are encoded
LoadModule ==
    /\ pc = "import"
    /\ embedder' = <<>>
    /\ context_embeddings' = "encoded"
    /\ template_encodings' = template_encodings + 1
    /\ pc' = "main"
    /\ UNCHANGED <<agg, prev, rating_info, match_patterns, match_text, match_result, txt,
                   scenes, features, scores, top_scenes, result, error, scenario_files,
                   scenario, all_results>>

\* a call that goes on with the list of features of the call before it
FreshCall_keeping ==
    /\ scenes' = <<>> /\ features' = features /\ scores' = <<>>
    /\ agg' = NONE /\ rating_info' = NONE /\ top_scenes' = <<>> /\ result' = NONE

\* the locals of a new call of analyze_script_file
FreshCall ==
    /\ scenes' = <<>> /\ features' = <<>> /\ scores' = <<>>
    /\ agg' = NONE /\ rating_info' = NONE /\ top_scenes' = <<>> /\ result' = NONE

\* a turn of the loop of main: test_scenario calls analyze_script_file,
\* which reads the file
TestScenario ==
    /\ pc = "main"
    /\ scenario < Len(scenario_files)
    /\ scenario' = scenario + 1
    /\ FreshCall
    /\ IF scenario_files[scenario + 1].readable
       THEN pc' = "analyze_call" /\ error' = NONE /\ txt' = scenario_files[scenario + 1].text
       ELSE pc' = "raised" /\ error' = "OSError" /\ txt' = NONE
    /\ UNCHANGED <<prev, match_patterns, match_text, match_result, embedder,
                   context_embeddings, template_encodings, scenario_files, all_results>>

\* test_scenario returns the record of a success, main appends it
RecordSuccess ==
    /\ pc = "analyzed"
    /\ scenario > 0
    /\ all_results' = Append(all_results,
                             [file |-> scenario, status |-> "success", result |-> result])
    /\ pc' = "main"
    /\ UNCHANGED <<agg, prev, rating_info, match_patterns, match_text, match_result, txt,
                   scenes, analysis, error, context_embeddings, template_encodings,
                   scenario_files, scenario>>

\* a failure that ends the batch
RecordFailure_aborting ==
    /\ pc = "raised"
    /\ scenario > 0
    /\ all_results' = Append(all_results,
                             [file |-> scenario, status |-> "failed", error |-> error])
    /\ error' = NONE
    /\ pc' = "exit_1"
    /\ UNCHANGED <<agg, prev, rating_info, match_patterns, match_text, match_result, txt,
                   scenes, analysis, context_embeddings, template_encodings,
                   scenario_files, scenario>>

\* except Exception: test_scenario returns the record of a failure
RecordFailure ==
    /\ pc = "raised"
    /\ scenario > 0
    /\ all_results' = Append(all_results,
                             [file |-> scenario, status |-> "failed", error |-> error])
    /\ error' = NONE
    /\ pc' = "main"
    /\ UNCHANGED <<agg, prev, rating_info, match_patterns, match_text, match_result, txt,
                   scenes, analysis, context_embeddings, template_encodings,
                   scenario_files, scenario>>

failed_count == Cardinality({i \in 1..Len(all_results) : all_results[i].status = "failed"})

\* the summary and sys.exit(0 if failed_count == 0 else 1)
Exit ==
    /\ pc = "main"
    /\ scenario = Len(scenario_files)
    /\ pc' = IF failed_count = 0 THEN "exit_0" ELSE "exit_1"
    /\ UNCHANGED <<agg, prev, rating_info, match_patterns, match_text, match_result, txt,
                   scenes, analysis, process>>

NextProcess ==
    \/ LoadModule
    \/ TestScenario
    \/ NextAnalyze
    \/ RecordSuccess
    \/ RecordFailure
    \/ Exit

SpecProcess == InitProcess /\ [][NextProcess]_vars

----------------------------------------------------------------------------
(* analyze_script_file from the aggregation on, for a document of one scene *)
(* the scores of which lie at and next to the tiers of the recommendations  *)

\* scores below the lower tier, at the lower tier, between the tiers and at
\* the higher tier
AroundTiers(low, high) == {Pct(low - 1), Pct(low), Pct(high - 1), Pct(high)}
\* scores below and at the one tier
AroundTier(tier) == {Pct(tier - 1), Pct(tier)}

InitTiers ==
    /\ pc = "aggregate"
    /\ scenes = ScenesOf(1)
    /\ \E v \in AroundTiers(40, 70), g \in AroundTiers(30, 60), s \in AroundTiers(30, 60),
          n \in AroundTier(40), p \in AroundTiers(30, 50), d \in AroundTier(40),
          c \in AroundTier(50) :
            scores = <<SceneScore(v, g, s, n, p, d, c)>>
    /\ txt = NONE /\ embedder = <<>> /\ features = <<>>
    /\ agg = NONE /\ rating_info = NONE /\ top_scenes = <<>> /\ result = NONE
    /\ prev = <<>>
    /\ match_patterns = NONE /\ match_text = NONE /\ match_result = NONE
    /\ NoBatch

SpecTiers == InitTiers /\ [][NextScored]_vars

----------------------------------------------------------------------------
(* analyze_script_file from the aggregation on, for documents of quiet      *)
(* scenes and scenes of the highest violence or gore                        *)

\* a scene without any score, a scene of violence and gore 1.0, a scene of
\* violence 1.0 alone and a scene of gore 1.0 alone
Quiet == SceneScore(Zero, Zero, Zero, Zero, Zero, Zero, Zero)
Graphic == SceneScore(One, One, Zero, Zero, Zero, Zero, Zero)
Brutal == SceneScore(One, Zero, Zero, Zero, Zero, Zero, Zero)
Gory == SceneScore(Zero, One, Zero, Zero, Zero, Zero, Zero)

InitGraphic ==
    /\ pc = "aggregate"
    /\ \E n \in (1..MaxListed) \ {2} :
          /\ scenes = ScenesOf(n)
          /\ scores \in [1..n -> {Quiet, Graphic, Brutal, Gory}]
    /\ txt = NONE /\ embedder = <<>> /\ features = <<>>
    /\ agg = NONE /\ rating_info = NONE /\ top_scenes = <<>> /\ result = NONE
    /\ prev = <<>>
    /\ match_patterns = NONE /\ match_text = NONE /\ match_result = NONE
    /\ NoBatch

SpecGraphic == InitGraphic /\ [][NextScored]_vars

----------------------------------------------------------------------------
(* analyze_script_file from the scoring on, for documents the scenes of     *)
(* which mention minors                                                     *)

\* the contexts of the scenes: calm, child endangerment at 0.5 and at 0.51
ChildContexts == {Calm, Context(50, {}, 50), Context(30, {"child_endangerment"}, 51)}
\* the features of a scene of 100 words with c matches of minors and v
\* matches of violence
ChildFeatures ==
    {Features(v, 0, 0, 0, c, 0, 0, 100, ctx) :
        v \in {0, 1}, c \in 0..(MaxCount + 1), ctx \in ChildContexts}

InitMinors ==
    /\ pc = "features"
    /\ \E n \in {1, MinScenes} :
          /\ scenes = ScenesOf(n)
          /\ features \in [1..n -> ChildFeatures]
    /\ txt = NONE /\ embedder = <<>> /\ scores = <<>>
    /\ agg = NONE /\ rating_info = NONE /\ top_scenes = <<>> /\ result = NONE
    /\ prev = <<>>
    /\ match_patterns = NONE /\ match_text = NONE /\ match_result = NONE
    /\ NoBatch

NextMinors == NormalizeScores \/ NextScored

SpecMinors == InitMinors /\ [][NextMinors]_vars

----------------------------------------------------------------------------
(* analyze_script_file from the scoring on, for documents of scenes with    *)
(* nudity                                                                   *)

\* the features of a scene of 100 words with n matches of nudity and p
\* matches of profanity
NudityFeatures ==
    {Features(0, 0, p, 0, 0, n, 0, 100, Calm) : p \in {0, 1}, n \in 0..(MaxCount + 1)}

InitNudity ==
    /\ pc = "features"
    /\ \E n \in {1, MinScenes, MinScenes + 1} :
          /\ scenes = ScenesOf(n)
          /\ features \in [1..n -> NudityFeatures]
    /\ txt = NONE /\ embedder = <<>> /\ scores = <<>>
    /\ agg = NONE /\ rating_info = NONE /\ top_scenes = <<>> /\ result = NONE
    /\ prev = <<>>
    /\ match_patterns = NONE /\ match_text = NONE /\ match_result = NONE
    /\ NoBatch

SpecNudity == InitNudity /\ [][NextMinors]_vars

----------------------------------------------------------------------------
(* analyze_script_file with the turns of its two per-scene loops taken in   *)
(* any order and interleaving; features and scores are kept by scene, and   *)
(* are the lists of the code when every scene has been scored               *)

\* scripts of as many scenes as keep the split
UnorderedScripts == {Concat(bs) : bs \in [1..MinScenes -> SceneBlocks]}

InitUnordered ==
    /\ pc = "analyze_call"
    /\ txt \in UnorderedScripts
    /\ embedder = <<>>
    /\ scenes = <<>> /\ features = <<>> /\ scores = <<>>
    /\ agg = NONE /\ rating_info = NONE /\ top_scenes = <<>> /\ result = NONE
    /\ prev = <<>>
    /\ match_patterns = NONE /\ match_text = NONE /\ match_result = NONE
    /\ NoBatch

\* scenes = parse_script_to_scenes(txt), the per-scene stage comes next
ParseScriptUnordered ==
    /\ pc = "analyze_call"
    /\ scenes' = parse_script_to_scenes(txt)
    /\ pc' = "per_scene"
    /\ UNCHANGED <<agg, prev, rating_info, match_patterns, match_text, match_result, txt,
                   analysis, process>>

\* the value v put at index i
Put(f, i, v) == [j \in DOMAIN f \cup {i} |-> IF j = i THEN v ELSE f[j]]

\* extract_scene_features(s['text']) of a scene that has no features yet
ExtractFeaturesOfAnyScene ==
    /\ pc = "per_scene"
    /\ \E i \in (1..Len(scenes)) \ DOMAIN features :
       \E ctx \in EmbedderAnswers :
          /\ TextClass(scenes[i].text) \in DOMAIN embedder
                => ctx = embedder[TextClass(scenes[i].text)]
          /\ embedder' = Asked(embedder, scenes[i].text, ctx)
          /\ features' = Put(features, i, extract_scene_features(embedder', scenes[i].text))
    /\ ReadContextEmbeddings
    /\ UNCHANGED <<pc, agg, prev, rating_info, match_patterns, match_text, match_result,
                   txt, scenes, scores, top_scenes, result, error, scenario_files,
                   scenario, all_results>>

\* normalize_and_contextualize_scores(f) of a scene that has features and
\* no scores yet
ScoreAnyScene ==
    /\ pc = "per_scene"
    /\ \E i \in DOMAIN features \ DOMAIN scores :
          scores' = Put(scores, i, normalize_and_contextualize_scores(features[i]))
    /\ UNCHANGED <<pc, agg, prev, rating_info, match_patterns, match_text, match_result,
                   txt, scenes, embedder, features, top_scenes, result, process>>

\* every scene has been scored: the aggregation comes next
AllScenesScored ==
    /\ pc = "per_scene"
    /\ DOMAIN scores = 1..Len(scenes)
    /\ pc' = "aggregate"
    /\ UNCHANGED <<agg, prev, rating_info, match_patterns, match_text, match_result, txt,
                   scenes, analysis, process>>

NextUnordered ==
    \/ ParseScriptUnordered
    \/ ExtractFeaturesOfAnyScene
    \/ ScoreAnyScene
    \/ AllScenesScored
    \/ AggregateScores
    \/ RateScript
    \/ RankScenes
    \/ ReturnResult

SpecUnordered == InitUnordered /\ [][NextUnordered]_vars

----------------------------------------------------------------------------
(* Claims about the rating classifier *)

\* the ordered rule table of the specification, section 4.6
RuleHolds(i, a) ==
    CASE i = 1 -> RGe(a.sex_act, Pct(75)) \/ RGe(a.gore, Pct(95))
      [] i = 2 -> RGt(a.child_risk, Pct(70))
                    /\ (RGe(a.sex_act, Pct(50)) \/ RGe(a.violence, Pct(80)))
      [] i = 3 -> (RGe(a.violence, Pct(80)) /\ RGe(a.gore, Pct(70)))
                    \/ RGe(a.gore, Pct(75))
      [] i = 4 -> RGe(a.violence, Pct(65)) \/ RGe(a.gore, Pct(50))
      [] i = 5 -> RGe(a.sex_act, Pct(35)) \/ RGe(a.nudity, Pct(40))
      [] i = 6 -> RGe(a.violence, Pct(40)) \/ RGe(a.profanity, Pct(50))
                    \/ RGe(a.drugs, Pct(40))
      [] i = 7 -> RGe(a.violence, Pct(20)) \/ RGe(a.profanity, Pct(30))
      [] OTHER -> TRUE
RuleRating == <<"18+", "18+", "16+", "16+", "16+", "12+", "6+", "0+">>
FirstRule(a) == CHOOSE i \in 1..8 : RuleHolds(i, a) /\ \A j \in 1..(i - 1) : ~RuleHolds(j, a)

OthersAgree(a, b) ==
    /\ a.gore = b.gore /\ a.sex_act = b.sex_act /\ a.nudity = b.nudity
    /\ a.profanity = b.profanity /\ a.drugs = b.drugs /\ a.child_risk = b.child_risk
C2_MonotoneInViolence ==
    (pc = "rated" /\ prev # <<>> /\ OthersAgree(prev[1].agg, agg)
        /\ RLe(prev[1].agg.violence, agg.violence))
    => Tier(rating_info.rating) >= Tier(prev[1].rating_info.rating)

\* raising violence alone lifted the rating from 6+ to 18+ (rule 2)
C2_Witness ==
    /\ pc = "rated" /\ prev # <<>>
    /\ OthersAgree(prev[1].agg, agg)
    /\ RLt(prev[1].agg.violence, agg.violence)
    /\ prev[1].rating_info.rating = "6+"
    /\ rating_info.rating = "18+"

----------------------------------------------------------------------------
(* Claims about the lexical matcher *)

\* every match of every pattern, as (pattern index, match index)
AllMatches(ps, t) ==
    UNION {{<<n, m>> : m \in 1..Len(FindIter(ps[n], t, 1))} : n \in 1..Len(ps)}
WindowOf(ps, t, nm) == Excerpt(t, FindIter(ps[nm[1]], t, 1)[nm[2]])
Suppressed(excerpt) == \E f \in 1..Len(FALSE_POSITIVES) : Search(FALSE_POSITIVES[f], excerpt)
TooShort(excerpt) == Len(Strip(excerpt)) <= ShortExcerpt
SurvivingMatches(ps, t) ==
    {nm \in AllMatches(ps, t) : ~Suppressed(WindowOf(ps, t, nm)) /\ ~TooShort(WindowOf(ps, t, nm))}

\* C5: the count returned by count_pattern_matches is the number of matches
\* that survive: not suppressed by the false-positive list and not dropped
\* because the trimmed excerpt is too short.
C5_CountIsSurvivingMatches ==
    pc = "matched" =>
        match_result.count = Cardinality(SurvivingMatches(Lexicon(match_patterns), match_text))

\* C6: a match whose context window is matched by a suppression pattern adds
\* nothing to the count and nothing to the excerpts; the violence list gives
\* count 0 on "if it kills me" and count >= 1 on "he killed the soldier with
\* a knife".
C6_Suppression ==
    pc = "matched" =>
        LET ps == Lexicon(match_patterns)
            unsuppressed == {nm \in AllMatches(ps, match_text) :
                                ~Suppressed(WindowOf(ps, match_text, nm))}
        IN /\ match_result.count = Cardinality(unsuppressed)
           /\ \A n \in 1..Len(match_result.matches) : ~Suppressed(match_result.matches[n])
           /\ (match_patterns = "violence" /\ match_text = s_if_it_kills_me)
                => match_result.count = 0
           /\ (match_patterns = "violence" /\ match_text = s_he_killed)
                => match_result.count >= 1

\* "if it kills me knife": both keyword matches lie in a suppressed window
C6_Witness ==
    /\ pc = "matched"
    /\ match_patterns = "violence"
    /\ match_text = Join(<<s_if_it_kills_me, w_knife>>)
    /\ Cardinality(AllMatches(VIOLENCE_WORDS, match_text)) = 2
    /\ match_result.count = 0
    /\ match_result.matches = <<>>

----------------------------------------------------------------------------
(* Claims about the scene segmenter *)

\* the recognized scene markers of a text: the positions at which the split
\* pattern matches
\* the text before the first marker
Preamble(t) ==
    IF Cuts(t) = {} THEN t ELSE SubSeq(t, 1, Least(Cuts(t)) - 1)
OneSceneSpanning(t, ss) == Len(ss) = 1 /\ ss[1].text = t

----------------------------------------------------------------------------
(* Claims about the scene scorer and the document pipeline *)

\* the match count behind each score
CountOf(f, k) ==
    CASE k = "violence" -> f.violence_count
      [] k = "gore" -> f.gore_count
      [] k = "sex_act" -> f.sex_count
      [] k = "nudity" -> f.nudity_count
      [] k = "profanity" -> f.profanity_count
      [] k = "drugs" -> f.drugs_count
      [] k = "child_risk" -> f.child_count
NoMatches(f) == \A k \in Range(score_keys) : CountOf(f, k) = 0
\* every context score below 0.5
Neutral(ctx) == \A c \in CONTEXT_TYPES : RLt(ctx[c], Pct(50))
AllInUnit(s) == \A k \in Range(score_keys) : InUnit(s[k])
Aggregated == pc \in {"rate", "rank", "return", "analyzed"}
Rated == pc \in {"rank", "return", "analyzed"}

\* C3: each of the 7 scores normalize_and_contextualize_scores gives a scene
\* lies in [0,1], and so does each of the 7 aggregated scores of a document.
C3_ScoresInUnitRange ==
    /\ \A n \in 1..Len(scores) : AllInUnit(scores[n])
    /\ Aggregated => AllInUnit(agg)

\* a document with a scene whose violence density times 100 is above 1 and
\* is clamped to 1.0, and whose aggregated nudity is strictly inside (0,1)
C3_Witness ==
    /\ Aggregated
    /\ \E n \in 1..Len(scores) :
          /\ features[n].violence_count * 100 > features[n].length
          /\ scores[n].violence = One
    /\ RLt(Zero, agg.nudity) /\ RLt(agg.nudity, One)

\* C7: the excerpt lists count_pattern_matches returns for a scene, the
\* lists pooled over the scenes of a document and the evidence excerpts of
\* the rating have at most 5 entries each, whatever the match count.
C7_ExcerptCap ==
    /\ \A n \in 1..Len(features) :
          /\ Len(features[n].violence_excerpts) <= 5
          /\ Len(features[n].gore_excerpts) <= 5
          /\ Len(features[n].profanity_excerpts) <= 5
          /\ Len(features[n].drugs_excerpts) <= 5
          /\ Len(features[n].child_excerpts) <= 5
          /\ Len(features[n].nudity_excerpts) <= 5
          /\ Len(features[n].sex_excerpts) <= 5
    /\ Aggregated => \A key \in Range(excerpt_keys) : Len(agg.excerpts[key]) <= 5
    /\ (Rated \/ pc = "rated") => Len(rating_info.evidence_excerpts) <= 5
    /\ pc = "analyzed" => Len(result.evidence_excerpts) <= 5

\* a scene with 6 violence matches of which 5 excerpts are returned and
\* pooled, 2 of them given as evidence
C7_Witness ==
    /\ pc = "analyzed"
    /\ \E n \in 1..Len(features) :
          /\ features[n].violence_count > 5
          /\ Len(features[n].violence_excerpts) = 5
    /\ Len(agg.excerpts.violence) = 5
    /\ Len(result.evidence_excerpts) = 2

\* C8: with every context score below 0.5, a category whose match count is
\* 0 gets score exactly 0, whatever the counts of the other categories.
C8_ZeroCountZeroScore ==
    (pc = "scored" /\ Neutral(features[1].context_scores))
    => \A k \in Range(score_keys) : CountOf(features[1], k) = 0 => scores[1][k] = Zero

\* no violence match among matches of every other category: violence is
\* scored 0 and every other category above 0
C8_Witness ==
    /\ pc = "scored" /\ Neutral(features[1].context_scores)
    /\ \A k \in Range(score_keys) :
          IF k = "violence"
          THEN CountOf(features[1], k) = 0 /\ scores[1][k] = Zero
          ELSE CountOf(features[1], k) > 0 /\ RGt(scores[1][k], Zero)

\* one scene of 50 words with 3 violence matches, no other match, and every
\* context score below 0.5
OneViolentScene ==
    /\ Len(scenes) = 1 /\ Len(features) = 1
    /\ features[1].length = 50
    /\ features[1].violence_count = 3
    /\ \A k \in Range(score_keys) \ {"violence"} : CountOf(features[1], k) = 0
    /\ Neutral(features[1].context_scores)

FiveQuietScenes == Len(features) = 5 /\ \A n \in 1..5 : NoMatches(features[n])

\* C10: a document of 5 scenes with no match in any category in any scene,
\* whatever the context scores, has all 7 aggregated scores 0, is rated 0+
\* and has no trigger scene.
C10_FiveQuietScenes ==
    /\ (Aggregated /\ FiveQuietScenes) => \A k \in Range(score_keys) : agg[k] = Zero
    /\ (Rated /\ FiveQuietScenes) => rating_info.rating = "0+"
    /\ (pc \in {"return", "analyzed"} /\ FiveQuietScenes) => top_scenes = <<>>
    /\ (pc = "analyzed" /\ FiveQuietScenes) =>
          /\ result.predicted_rating = "0+"
          /\ result.top_trigger_scenes = <<>>
          /\ \A k \in Range(score_keys) : result.aggregated_scores[k] = Zero

\* five quiet scenes whose context scores are not all below 0.5
C10_Witness ==
    /\ pc = "analyzed" /\ FiveQuietScenes
    /\ \E n \in 1..5 : ~Neutral(features[n].context_scores)

----------------------------------------------------------------------------
(* Claims about aggregation and ranking *)

\* the j-th smallest of xs, by counting
OrderStatistic(xs, j) ==
    CHOOSE v \in Range(xs) :
        /\ Cardinality({i \in 1..Len(xs) : RLt(xs[i], v)}) < j
        /\ Cardinality({i \in 1..Len(xs) : RLe(xs[i], v)}) >= j
Largest(xs) == OrderStatistic(xs, Len(xs))
\* the q-th percentile: at rank 1 + (n - 1) * q / 100, interpolated
\* linearly between the order statistics on both sides of the rank
Interpolated(xs, q) ==
    LET rank == Rat((Len(xs) - 1) * q, 100)
        whole == rank.num \div rank.den
        part == RSub(rank, Whole(whole))
        low == OrderStatistic(xs, whole + 1)
    IN IF part = Zero THEN low
       ELSE RAdd(RMul(low, RSub(One, part)), RMul(OrderStatistic(xs, whole + 2), part))
Mix(xs, a, b, q) == RAdd(RMul(Pct(a), Largest(xs)), RMul(Pct(b), Interpolated(xs, q)))

\* C11: the aggregated violence and gore are 0.7 max + 0.3 p95 of the
\* scene scores, the aggregated sex_act, nudity and child_risk are 0.85 max
\* + 0.15 p90, and the aggregated profanity and drugs are p90 alone, with
\* percentiles interpolated linearly between order statistics.
C11_AggregationStatistic ==
    (Aggregated /\ scores # <<>>) =>
        /\ \A k \in {"violence", "gore"} : agg[k] = Mix(Column(scores, k), 70, 30, 95)
        /\ \A k \in {"sex_act", "nudity", "child_risk"} :
              agg[k] = Mix(Column(scores, k), 85, 15, 90)
        /\ \A k \in {"profanity", "drugs"} : agg[k] = Interpolated(Column(scores, k), 90)

\* several scenes whose p90 of drugs and p95 of violence fall strictly
\* between two different scene scores
C11_Witness ==
    /\ Aggregated /\ Len(scores) >= 3
    /\ \A n \in 1..Len(scores) : agg.drugs # scores[n].drugs
    /\ RLt(Zero, agg.drugs)
    /\ \A n \in 1..Len(scores) : agg.violence # scores[n].violence
    /\ agg.sex_act # agg.child_risk

\* the scene an entry of top_scenes shows, as its place in scenes
SceneOf(entry) == entry.scene_id + 1
Shown == {SceneOf(top_scenes[i]) : i \in 1..Len(top_scenes)}
\* the scenes whose ranking weight is above 0.1
Significant == {n \in 1..Len(scores) : RGt(Weight(scores[n]), Pct(10))}
Ranked == pc \in {"return", "analyzed"}
\* sorting by weight, dropping the scenes of weight <= 0.1 and keeping the
\* first 5 of the rest: the entries are different significant scenes, as
\* many as there are up to 5, in non-increasing order of ranking weight,
\* and no scene left out outweighs a scene shown
SortedDroppedCapped ==
    /\ Len(top_scenes) <= 5
    /\ Cardinality(Shown) = Len(top_scenes)
    /\ Shown \subseteq Significant
    /\ Len(top_scenes) = IF Cardinality(Significant) < 5 THEN Cardinality(Significant) ELSE 5
    /\ \A i \in 1..(Len(top_scenes) - 1) :
          RGe(Weight(scores[SceneOf(top_scenes[i])]), Weight(scores[SceneOf(top_scenes[i + 1])]))
    /\ \A n \in (1..Len(scores)) \ Shown : \A m \in Shown :
          RLe(Weight(scores[n]), Weight(scores[m]))
    /\ \A i \in 1..(Len(top_scenes) - 1) : RGe(top_scenes[i].weight, top_scenes[i + 1].weight)

\* C12 as stated: top_trigger_scenes is the scenes sorted by ranking weight
\* descending, without those of weight <= 0.1, cut to the first 5; it has
\* at most 5 entries, every entry has weight > 0.1, the weights are
\* non-increasing and no dropped scene outweighs a kept one.
C12_EntriesAboveThreshold ==
    Ranked =>
        /\ SortedDroppedCapped
        /\ \A i \in 1..Len(top_scenes) : RGt(top_scenes[i].weight, Pct(10))

\* C12 amended: the same selection, where the ranking weight of every entry
\* is above 0.1 and the weight the entry shows, which is the ranking weight
\* rounded to 3 decimals, is at least 0.1.
C12_TriggerSelection ==
    Ranked =>
        /\ SortedDroppedCapped
        /\ \A i \in 1..Len(top_scenes) :
              /\ RGt(Weight(scores[SceneOf(top_scenes[i])]), Pct(10))
              /\ top_scenes[i].weight \in Rounds(Weight(scores[SceneOf(top_scenes[i])]), 3)
              /\ RGe(top_scenes[i].weight, Pct(10))

\* six significant scenes of which five are shown, the last with ranking
\* weight 30/299 shown as 0.1
C12_Witness ==
    /\ pc = "analyzed"
    /\ Cardinality(Significant) >= 6
    /\ Len(top_scenes) = 5
    /\ Weight(scores[SceneOf(top_scenes[5])]) = Rat(30, 299)
    /\ top_scenes[5].weight = Pct(10)

----------------------------------------------------------------------------
(* Claims about degenerate documents *)

MarkerLess == Cuts(txt) = {}
\* a marker-less document at every point of its analysis
OneSceneOfFlooredLength ==
    MarkerLess =>
        /\ pc # "analyze_call" =>
              scenes = <<[scene_id |-> 0, heading |-> s_full_script, text |-> txt]>>
        /\ \A n \in 1..Len(features) :
              /\ features[n].length >= 1
              /\ WordCount(txt) = 0 => features[n].length = 1
        /\ pc \in {"aggregate", "rate", "rank", "return", "analyzed"} =>
              Len(scores) = 1 /\ AllInUnit(scores[1])
        /\ txt = <<>> =>
              /\ Aggregated => \A k \in Range(score_keys) : agg[k] = Zero
              /\ Rated => rating_info.rating = "0+"
              /\ pc = "analyzed" =>
                    result.predicted_rating = "0+" /\ result.total_scenes = 1

\* C13: the empty document and every document without a scene marker are
\* analysed to the end without an error, as one scene with id 0, the
\* sentinel heading and the whole document as text, whose word length is at
\* least 1 (1 when it has no word), so that no divisor is 0; the empty
\* document has all aggregated scores 0 and is rated 0+.
C13_GracefulDegradation ==
    /\ OneSceneOfFlooredLength
    /\ MarkerLess => pc # "raised"

\* the empty document, analysed to the end as one scene of length 1
C13_Witness ==
    /\ pc = "analyzed" /\ txt = <<>>
    /\ Len(scenes) = 1 /\ scenes[1].text = <<>>
    /\ features[1].length = 1
    /\ result.predicted_rating = "0+"

----------------------------------------------------------------------------
(* Claims about the process and the batch driver *)

\* the batch has ended
Exited == pc \in {"exit_0", "exit_1"}
\* the files the test of which has ended
Tested == IF pc = "main" \/ Exited \/ scenario = 0 THEN scenario ELSE scenario - 1

\* C14: the batch driver tests every file once and in order, each tested
\* file has one record, 'failed' with the error message if its analysis
\* raised and 'success' with the returned result if not, and the batch ends
\* only when every file has its record, whichever files failed
C14_BatchIsolation ==
    pc # "import" =>
        /\ Len(all_results) = Tested
        /\ \A i \in 1..Len(all_results) :
              /\ all_results[i].file = i
              /\ IF scenario_files[i].readable
                 THEN all_results[i].status = "success"
                 ELSE all_results[i].status = "failed" /\ all_results[i].error = "OSError"
        /\ (pc = "main" /\ scenario > 0 /\ scenario_files[scenario].readable)
              => all_results[scenario].result = result
        /\ Exited => Len(all_results) = Len(scenario_files)

\* a batch of three files has ended, the first file failed and the two
\* after it were analysed
C14_Witness ==
    /\ pc = "exit_1"
    /\ Len(scenario_files) = 3
    /\ all_results[1].status = "failed"
    /\ all_results[2].status = "success" /\ all_results[2].result.total_scenes = 3
    /\ all_results[3].status = "success" /\ all_results[3].result = result

\* what analyze_script_file returns for a text in a process of its own, the
\* loaded model being the function model of the text
RatedAnalysis(scene_list, scene_scores, a) ==
    UNION {Result(a, info, top, scene_list) :
              info \in {map_scores_to_rating(a)},
              top \in TopScenes(Take(Ranking(scene_list, scene_scores), 5))}
ScoredAnalysis(scene_list, scene_scores) ==
    UNION {RatedAnalysis(scene_list, scene_scores, a) : a \in {Aggregate(scene_scores)}}
ParsedAnalysis(model, scene_list) ==
    UNION {ScoredAnalysis(scene_list, scene_scores) :
              scene_scores \in {[i \in 1..Len(scene_list) |->
                  normalize_and_contextualize_scores(
                      extract_scene_features(model, scene_list[i].text))]}}
AnalysisAlone(model, text) ==
    UNION {ParsedAnalysis(model, scene_list) : scene_list \in {parse_script_to_scenes(text)}}

\* C15: the result recorded for a file, when it is recorded, is the one
\* result the analysis of its text gives in a process of its own, whatever
\* files were analysed before it, and files of the same text have the same
\* result
C15_HistoryIndependence ==
    /\ (pc = "main" /\ scenario > 0 /\ scenario_files[scenario].readable)
          => AnalysisAlone(embedder, txt) = {all_results[scenario].result}
    /\ \A i \in 1..Len(all_results), j \in 1..Len(all_results) :
          (/\ scenario_files[i].readable /\ scenario_files[j].readable
           /\ scenario_files[i].text = scenario_files[j].text)
            => all_results[i].result = all_results[j].result

\* a text of three scenes was analysed first and again after another text,
\* with one result
C15_Witness ==
    /\ Exited
    /\ Len(all_results) = 3
    /\ scenario_files[1].readable /\ scenario_files[2].readable
    /\ scenario_files[3] = scenario_files[1] /\ scenario_files[2] # scenario_files[1]
    /\ all_results[1].result.total_scenes = 3
    /\ all_results[3].result = all_results[1].result
    /\ all_results[2].result # all_results[1].result

\* a document is being analysed or has been
Analysing ==
    pc \in {"analyze_call", "features", "aggregate", "rate", "rank", "return", "analyzed"}

\* C16: the context embeddings are there before the first file is tested
\* and whenever a document is analysed, and from the import on the
\* templates have been encoded once, however many scenes and documents
\* were analysed
C16_EncodedOnce ==
    /\ pc = "import" => template_encodings = 0 /\ scenario = 0 /\ all_results = <<>>
    /\ pc # "import" => context_embeddings = "encoded" /\ template_encodings = 1
    /\ (Analysing \/ scenario > 0) => context_embeddings = "encoded"

\* two documents were analysed, one of them of three scenes, after one
\* encoding of the templates
C16_Witness ==
    /\ Exited
    /\ template_encodings = 1
    /\ Len(all_results) = 2
    /\ all_results[1].status = "success" /\ all_results[1].result.total_scenes = 3
    /\ all_results[2].status = "success" /\ all_results[2].result.total_scenes = 1

\* the scores the sequential loops give the scenes
SequentialScores(model, scene_list) ==
    [i \in 1..Len(scene_list) |->
        normalize_and_contextualize_scores(extract_scene_features(model, scene_list[i].text))]

\* C17: whatever the order and interleaving in which the scenes of a
\* document get their features and scores, a scene's features and scores
\* are those of its text, and the scores, rating and trigger scenes of the
\* document are those of the sequential loop
C17_OrderIndependence ==
    /\ pc = "per_scene" =>
          /\ \A i \in DOMAIN features :
                features[i] = extract_scene_features(embedder, scenes[i].text)
          /\ \A i \in DOMAIN scores :
                scores[i] = normalize_and_contextualize_scores(features[i])
    /\ pc = "aggregate" => scores = SequentialScores(embedder, scenes)
    /\ pc = "analyzed" => AnalysisAlone(embedder, txt) = {result}

\* the third scene has been scored, the second has its features and the
\* first has not been looked at
C17_Witness ==
    /\ pc = "per_scene"
    /\ DOMAIN scores = {3}
    /\ DOMAIN features = {2, 3}

----------------------------------------------------------------------------
(* Claims about the recommendations of the trigger scenes *)

\* the tiers of the categories and the messages of the tiers
Ladders ==
    [violence |-> {<<Pct(70), REC_VIOLENCE_HIGH>>, <<Pct(40), REC_VIOLENCE_MODERATE>>},
     gore |-> {<<Pct(60), REC_GORE_HIGH>>, <<Pct(30), REC_GORE_MODERATE>>},
     sex_act |-> {<<Pct(60), REC_SEX_EXPLICIT>>, <<Pct(30), REC_SEX_MODERATE>>},
     nudity |-> {<<Pct(40), REC_NUDITY>>},
     profanity |-> {<<Pct(50), REC_PROFANITY_FREQUENT>>, <<Pct(30), REC_PROFANITY_COARSE>>},
     drugs |-> {<<Pct(40), REC_DRUGS>>},
     child_risk |-> {<<Pct(50), REC_CHILD>>}]
\* the tiers of category k the score reaches
TiersReached(score, k) == {tier \in Ladders[k] : RGe(score[k], tier[1])}
\* the places of the messages of category k in the list
MessagesFor(recommendations, k) ==
    {i \in DOMAIN recommendations : \E tier \in Ladders[k] : recommendations[i] = tier[2]}
\* the trigger scenes are listed
Listed == pc \in {"return", "analyzed"}
\* the scores of the scene of an entry
ScoreOf(entry) == scores[entry.scene_id + 1]

\* C18: the recommendations of every trigger scene are not empty, they are
\* the one message for a scene without issues if no category of the scene
\* reaches its lowest tier, and do not hold that message if one does
C18_RecommendationsNotEmpty ==
    Listed =>
        \A e \in 1..Len(top_scenes) :
            /\ Len(top_scenes[e].recommendations) >= 1
            /\ top_scenes[e].recommendations = <<REC_NONE>>
                  <=> \A k \in DOMAIN Ladders : TiersReached(ScoreOf(top_scenes[e]), k) = {}
            /\ \A i \in DOMAIN top_scenes[e].recommendations :
                  top_scenes[e].recommendations[i] = REC_NONE
                     => top_scenes[e].recommendations = <<REC_NONE>>

\* a trigger scene every score of which is just below its lowest tier has
\* the one message
C18_Witness ==
    /\ pc = "analyzed"
    /\ Len(top_scenes) = 1
    /\ scores[1].violence = Pct(39) /\ scores[1].child_risk = Pct(49)
    /\ \A k \in DOMAIN Ladders : TiersReached(scores[1], k) = {}
    /\ result.top_trigger_scenes[1].recommendations = <<REC_NONE>>

\* C19 as claimed: a trigger scene has as many messages of a category as
\* the scene's score reaches tiers of the category
C19_MessagePerTier ==
    Listed =>
        \A e \in 1..Len(top_scenes) : \A k \in DOMAIN Ladders :
            Cardinality(MessagesFor(top_scenes[e].recommendations, k))
                = Cardinality(TiersReached(ScoreOf(top_scenes[e]), k))

\* C19: a trigger scene has no message of a category the lowest tier of
\* which its score does not reach, and else one message of the category,
\* that of the highest tier the score reaches
C19_MessagePerCategory ==
    Listed =>
        \A e \in 1..Len(top_scenes) : \A k \in DOMAIN Ladders :
            LET reached == TiersReached(ScoreOf(top_scenes[e]), k)
                messages == MessagesFor(top_scenes[e].recommendations, k)
            IN  IF reached = {} THEN messages = {}
                ELSE /\ Cardinality(messages) = 1
                     /\ \E tier \in reached :
                           /\ \A other \in reached : RGe(tier[1], other[1])
                           /\ \A i \in messages :
                                 top_scenes[e].recommendations[i] = tier[2]

\* a trigger scene of violence 0.7, which reaches both tiers, and of gore
\* 0.3, which reaches one, has the message of high violence and that of
\* moderate gore
C19_Witness ==
    /\ pc = "analyzed"
    /\ Len(top_scenes) = 1
    /\ scores[1].violence = Pct(70) /\ scores[1].gore = Pct(30)
    /\ Cardinality(TiersReached(scores[1], "violence")) = 2
    /\ SubSeq(top_scenes[1].recommendations, 1, 2) = <<REC_VIOLENCE_HIGH, REC_GORE_MODERATE>>

----------------------------------------------------------------------------
(* Claims about the places of the scene boundaries *)

\* place i of the text begins a line
BeginsLine(t, i) == i = 1 \/ t[i - 1] = "\n"

\* C20: when the document is split into scenes, every place where the
\* text is cut is one where a marker begins a line: letters of a marker in
\* the middle of a line or at the end of a longer word are no boundary
C20_BoundariesBeginLines ==
    (pc = "parsed" /\ scenes # FullScript(txt))
        => \A i \in Cuts(txt) : BeginsLine(txt, i)

----------------------------------------------------------------------------
(* Claims about the scores of a scene *)

\* the factor a context score above its threshold contributes
Factor(ctx, c, threshold, factor) == IF RGt(ctx[c], Pct(threshold)) THEN Pct(factor) ELSE One
\* the multiplier: the one dampener that applies times the two amplifiers
Multiplier(ctx, stylized, graphic, horror) ==
    LET discussed == \/ RGt(ctx.discussion_violence, Pct(55))
                     \/ RGt(ctx.thriller_tension, Pct(50))
        dampener == IF discussed THEN Pct(30)
                    ELSE Factor(ctx, "stylized_action", 50, stylized)
    IN RMul(RMul(dampener, Factor(ctx, "graphic_violence", 60, graphic)),
            Factor(ctx, "horror_violence", 55, horror))
\* min(1.0, count / length * 100 * multiplier)
Multiplied(count, L, m) == RMin(One, RMul(RMul(Rat(count, L), Whole(100)), m))

----------------------------------------------------------------------------
(* Claims about documents of a few graphic scenes *)

\* the scenes of the score
ScenesOfScore(score) == {i \in 1..Len(scores) : scores[i] = score}
\* one or two scenes of violence and gore 1.0, every other scene quiet
FewGraphicScenes ==
    /\ Cardinality(ScenesOfScore(Graphic)) \in {1, 2}
    /\ ScenesOfScore(Graphic) \cup ScenesOfScore(Quiet) = 1..Len(scores)

\* C22: a document of one or two scenes of violence and gore 1.0 among
\* quiet scenes is rated 16+, whatever the number of its scenes
C22_FewGraphicScenesRated16 ==
    (Rated /\ FewGraphicScenes) => rating_info.rating = "16+"

\* the one scene that scores in category k scores 1.0, in a document of two
\* scenes or more
SingleOutlier(k) ==
    /\ Len(scores) >= 2
    /\ \E i \in 1..Len(scores) :
          /\ scores[i][k] = One
          /\ \A j \in (1..Len(scores)) \ {i} : scores[j][k] = Zero

\* C23: the aggregate of violence, and of gore, of a document of two
\* scenes or more with one scene of score 1.0 and every other of score 0
\* in the category is below 1.0
C23_OutlierBelowCeiling ==
    Aggregated =>
        /\ SingleOutlier("violence") => RLt(agg.violence, One)
        /\ SingleOutlier("gore") => RLt(agg.gore, One)

\* three scenes, the first of violence 1.0 and no gore, the others quiet:
\* violence 0.7 * 1 + 0.3 * 0.9
C23_Witness ==
    /\ pc = "analyzed"
    /\ scores = <<Brutal, Quiet, Quiet>>
    /\ agg.violence = Pct(97) /\ agg.gore = Zero

----------------------------------------------------------------------------
(* Claims about the lexicons and the suppression list *)

\* the lexicon was matched against the text
Matched(name, text) == pc = "matched" /\ match_patterns = name /\ match_text = text

\* C24: the hypothetical sentence with molest and the figurative sentence
\* with brain have count 0, the literal sentences have a count of 1 or more
C24_HypotheticalAndLiteral ==
    /\ Matched("sex", s_as_if_molest) => match_result.count = 0
    /\ Matched("sex", s_he_molested) => match_result.count >= 1
    /\ Matched("gore", s_brain_garbage) => match_result.count = 0
    /\ Matched("gore", s_brain_injured) => match_result.count >= 1

----------------------------------------------------------------------------
(* Claims about the scale of the violence score *)

\* a scene of L words with one violence match and no context score above a
\* threshold of the multiplier
OneMentionIn(L) ==
    /\ pc = "scored"
    /\ features[1].violence_count = 1 /\ features[1].length = L
    /\ Multiplier(features[1].context_scores, 60, 130, 120) = One

\* C25: with multiplier 1.0, one violence match in 50 words is scored 0.2,
\* one in 25 words 0.4 and one in 10 words 1.0
C25_DensityScale ==
    /\ OneMentionIn(50) => scores[1].violence = Pct(20)
    /\ OneMentionIn(25) => scores[1].violence = Pct(40)
    /\ OneMentionIn(10) => scores[1].violence = One

----------------------------------------------------------------------------
(* Claims about the order of the ratings *)

\* no score of a is above the score of b
NoneLower(a, b) ==
    /\ RLe(a.violence, b.violence) /\ RLe(a.gore, b.gore) /\ RLe(a.sex_act, b.sex_act)
    /\ RLe(a.nudity, b.nudity) /\ RLe(a.profanity, b.profanity) /\ RLe(a.drugs, b.drugs)
    /\ RLe(a.child_risk, b.child_risk)
\* the tiers of the rules the vector satisfies
SatisfiedTiers(a) == {Tier(RuleRating[i]) : i \in {j \in 1..8 : RuleHolds(j, a)}}

\* C26: of two vectors the second of which has no lower score, the second
\* is not rated a lower tier; the rating of a vector is the highest rating
\* of the rules it satisfies
C26_MonotoneInEveryCategory ==
    pc = "rated" =>
        /\ \A t \in SatisfiedTiers(agg) : Tier(rating_info.rating) >= t
        /\ Tier(rating_info.rating) \in SatisfiedTiers(agg)
        /\ (prev # <<>> /\ NoneLower(prev[1].agg, agg))
              => Tier(rating_info.rating) >= Tier(prev[1].rating_info.rating)

\* higher nudity, profanity and drugs, nothing else changed, lifted the
\* rating from 0+ to 16+
C26_Witness ==
    /\ pc = "rated" /\ prev # <<>>
    /\ NoneLower(prev[1].agg, agg)
    /\ prev[1].agg.violence = agg.violence /\ prev[1].agg.gore = agg.gore
    /\ prev[1].agg.sex_act = agg.sex_act /\ prev[1].agg.child_risk = agg.child_risk
    /\ RLt(prev[1].agg.nudity, agg.nudity)
    /\ RLt(prev[1].agg.profanity, agg.profanity)
    /\ RLt(prev[1].agg.drugs, agg.drugs)
    /\ prev[1].rating_info.rating = "0+"
    /\ rating_info.rating = "16+"

----------------------------------------------------------------------------
(* Claims about the number of scenes *)

\* the places of the document at which the text stands
PlacesOf(text, t) ==
    {i \in 1..(Len(t) - Len(text) + 1) : SubSeq(t, i, i + Len(text) - 1) = text}
\* the scenes from the n-th on stand in the document in their order, at
\* place from or later
RECURSIVE InDocumentOrder(_, _, _, _)
InDocumentOrder(ss, t, n, from) ==
    \/ n > Len(ss)
    \/ /\ {i \in PlacesOf(ss[n].text, t) : i >= from} # {}
       /\ InDocumentOrder(ss, t, n + 1,
                          Least({i \in PlacesOf(ss[n].text, t) : i >= from}) + Len(ss[n].text))

\* C27: parse_script_to_scenes returns one scene, the whole text, or three
\* scenes or more, never none and never two; three scenes or more have the
\* ids 0, 1, 2, ... in the order of the document and texts of 20
\* characters or more
C27_OneOrThreeAndMore ==
    pc = "parsed" =>
        /\ Len(scenes) = 1 \/ Len(scenes) >= 3
        /\ Len(scenes) = 1 => scenes[1].text = txt /\ scenes[1].scene_id = 0
        /\ Len(scenes) >= 3 =>
              /\ \A i \in 1..Len(scenes) :
                    scenes[i].scene_id = i - 1 /\ Len(scenes[i].text) >= 20
              /\ InDocumentOrder(scenes, txt, 1, 1)

\* four markers, the fragment of the second too short to be a scene: three
\* scenes with the ids 0, 1, 2
C27_Witness ==
    /\ pc = "parsed"
    /\ Cardinality(Cuts(txt)) = 4
    /\ Len(scenes) = 3
    /\ scenes[3].scene_id = 2
    /\ Len(scenes[1].text) = 20

----------------------------------------------------------------------------
(* Claims about the risk for minors *)

\* a scene of child-endangerment similarity above 0.5 with 2 matches of
\* minors or more
Confirmed(f) == RGt(f.context_scores.child_endangerment, Pct(50)) /\ f.child_count >= 2
NoSceneConfirmed == \A i \in 1..Len(features) : ~Confirmed(features[i])
Scored == pc \in {"aggregate", "rate", "rank", "return", "analyzed"}

\* C28: in a document without a scene of child-endangerment similarity
\* above 0.5 and 2 matches of minors or more, the child_risk of every scene
\* and the aggregated child_risk are 0.5 at most and the rating is not that
\* of rule 2
C28_MinorsNeedContext ==
    NoSceneConfirmed =>
        /\ Scored => \A i \in 1..Len(scores) : RLe(scores[i].child_risk, Pct(50))
        /\ Aggregated => RLe(agg.child_risk, Pct(50)) /\ ~RuleHolds(2, agg)
        /\ Rated => \A i \in 1..Len(rating_info.reasons) :
                        rating_info.reasons[i] # REASON_MINORS

\* three scenes of violence 1.0: one of 3 matches of minors in a calm
\* context, one of 1 match under child endangerment, one of 2 matches at
\* similarity 0.5; the child_risk is 0.5, 0.5 and 0.4, its aggregate is
\* below 0.5 and the rating is 16+ for the violence
C28_Witness ==
    /\ pc = "analyzed"
    /\ NoSceneConfirmed
    /\ Len(features) = 3
    /\ features[1].child_count = 3 /\ features[1].context_scores = Calm
    /\ features[2].child_count = 1
    /\ RGt(features[2].context_scores.child_endangerment, Pct(50))
    /\ features[3].child_count = 2
    /\ features[3].context_scores.child_endangerment = Pct(50)
    /\ scores[1].child_risk = Pct(50) /\ scores[2].child_risk = Pct(50)
    /\ scores[3].child_risk = Pct(40)
    /\ agg.violence = One
    /\ rating_info.rating = "16+"

----------------------------------------------------------------------------
(* Claims about nudity and the ranking *)

\* the scores a scene of 0 to 3 and more matches of nudity can have
NudityScores == {RMin(One, Rat(k, 3)) : k \in 0..3}
\* no score of the scene but nudity is above zero
NothingButNudity(score) ==
    /\ score.violence = Zero /\ score.gore = Zero /\ score.sex_act = Zero
    /\ score.profanity = Zero /\ score.drugs = Zero /\ score.child_risk = Zero
WithoutNudity(score_list) ==
    [i \in 1..Len(score_list) |-> [score_list[i] EXCEPT !.nudity = Zero]]
\* the scenes of a trigger list and their weights, in the order of the list
Order(top) == [j \in 1..Len(top) |-> <<top[j].scene_id, top[j].weight>>]

\* C29: the ranking weight of a scene is the same for every nudity score;
\* a scene with no score but nudity has weight 0 and is not in the trigger
\* list; the trigger list names the scenes and weights it would name with
\* all nudity scores at zero; a document with no score but nudity that
\* rule 5 rates 16+ has an empty top_trigger_scenes
C29_NudityOutsideRanking ==
    /\ Scored =>
          \A i \in 1..Len(scores) :
              /\ \A x \in NudityScores :
                    Weight([scores[i] EXCEPT !.nudity = x]) = Weight(scores[i])
              /\ NothingButNudity(scores[i]) => Weight(scores[i]) = Zero
    /\ Listed =>
          /\ \A j \in 1..Len(top_scenes) :
                ~NothingButNudity(scores[top_scenes[j].scene_id + 1])
          /\ Order(top_scenes) \in
                {Order(top) : top \in TopScenes(Take(Ranking(scenes, WithoutNudity(scores)), 5))}
    /\ (/\ pc = "analyzed"
        /\ \A i \in 1..Len(scores) : NothingButNudity(scores[i])
        /\ rating_info.reasons = <<REASON_SEX_NUDITY>>)
          => result.predicted_rating = "16+" /\ result.top_trigger_scenes = <<>>

\* a document of three scenes, the second with nudity 1.0 and nothing
\* else, rated 16+ for sex or nudity, with no trigger scene
C29_Witness ==
    /\ pc = "analyzed"
    /\ Len(scores) = 3
    /\ \A i \in 1..Len(scores) : NothingButNudity(scores[i])
    /\ scores[2].nudity = One
    /\ RGe(agg.nudity, Pct(40))
    /\ result.predicted_rating = "16+"
    /\ result.reasons = <<REASON_SEX_NUDITY>>
    /\ result.top_trigger_scenes = <<>>

----------------------------------------------------------------------------
(* Claims about the patterns of the keyword lists *)

\* the texts in which a match of the pattern is counted
CountedIn(p) == {t \in KeywordTexts : count_pattern_matches(<<PatternOf(p)>>, t).count > 0}

\* C30: every pattern of the keyword lists is live: a pattern that was
\* called on a text in which it matches has a text in which a match of it
\* is not suppressed but counted
C30_EveryPatternLive ==
    (pc = "pattern_matched" /\ FindIter(PatternOf(match_patterns), match_text, 1) # <<>>)
        => CountedIn(match_patterns) # {}

============================================================================
